---- MODULE Spec2Model ----
(***************************************************************************)
(* A model of the lpm-validation pipeline: results-folder matching,        *)
(* record enrichment, status derivation and the collector's phases.        *)
(* Strings are sequences of one-character strings, so that equality,       *)
(* substring tests, replace() and strip() are computed as Python computes  *)
(* them.                                                                   *)
(***************************************************************************)
EXTENDS Integers, Sequences, FiniteSets, TLC

VARIABLES
    \* --- results-folder lookup (SimulationRecord._find_results_folder,
    \*     ResultsMatcher.find_results_folder) ---
    unique_id,          \* the id looked for
    simulator_filter,   \* the simulator asked for
    all_folders,        \* data_source.list_folders(results_prefix), in listing order
    found,              \* what _find_results_folder returned
    matched,            \* what ResultsMatcher.find_results_folder returned
    called,             \* which of the two lookups have returned
    \* --- record enrichment (find_and_extract_results, match_and_extract) ---
    records,            \* the SimulationRecords Discovery created
    namespace,          \* the results namespace: the listing and each folder's content
    last,               \* the last match operation: its record, outcome and results
    \* --- status derivation (SimulationRecord.get_status) ---
    status,             \* what get_status returned for records[1], or NotCalled
    \* --- collector run (ValidationDataCollector.execute) ---
    pc,                 \* the phase execute is in: Start, a phase, or Done
    step,               \* the position inside discover_all
    idx,                \* the position of the loop of the current step
    geometries,         \* the geometries namespace: the sidecar of each leaf folder
    car_filter,         \* the car_filter argument of execute
    geometry_folders,   \* what list_folders(geometries_prefix) has collected
    phases,             \* the phases started, in order
    finished,           \* the phases that returned, in order
    n_matched,          \* how many records match_all has matched
    failed,             \* the phase whose call raised, or None
    raised,             \* the exception execute raised to its caller, or None
    result,             \* the dictionary execute returned, or None
    faults,             \* the store calls of the run that met an error
    csv_written,        \* the cars whose CSV file the exporter wrote
    report_written,     \* whether the summary report was saved
    looked_up,          \* whether the results namespace was listed
    \* --- one call of a function of the extractors or of the data source ---
    args,               \* the arguments of the call
    ret,                \* what the call returned or raised, or NotReturned
    listing,            \* the pagination loop of list_folders / list_files
    \* --- records matched side by side ---
    workers             \* per record, the match operation on it and how far it is

findVars == <<unique_id, simulator_filter, all_folders, found, matched, called>>

matchVars == <<records, namespace, last>>

execVars ==
    <<pc, step, idx, geometries, car_filter, geometry_folders, phases, finished,
      n_matched, failed, raised, result, faults, csv_written, report_written,
      looked_up>>

callVars == <<args, ret, listing, workers>>

vars == <<findVars, matchVars, status, execVars, callVars>>

-----------------------------------------------------------------------------
(* Bounds *)

MaxNameLen == 3     \* longest results-folder leaf name
MaxFolders == 2     \* longest results listing in the lookup specification
MaxResultsFolders == 2  \* most folders of the results namespace records are matched against

-----------------------------------------------------------------------------
(* Values *)

\* An optional value: None, or Some(x).
None == <<>>

Some(x) == <<x>>

\* The characters folder names, ids and simulator names are made of.
Alphabet == {"a", "_"}

\* The default simulator, simulation_record.py:175.
JakubNet == <<"J", "a", "k", "u", "b", "N", "e", "t">>

\* config.results_prefix, with the trailing delimiter list_folders adds.
ResultsPrefix == <<"r", "/">>

RECURSIVE StringsOfLen(_)
StringsOfLen(n) ==
    IF n = 0 THEN {<<>>}
    ELSE {<<c>> \o s : c \in Alphabet, s \in StringsOfLen(n - 1)}

StringsUpTo(n) == UNION {StringsOfLen(k) : k \in 0..n}

\* Leaf names of results folders: non-empty, without the delimiter.
FolderNames == StringsUpTo(MaxNameLen) \ {<<>>}

\* The path S3 lists for a results folder of that leaf name.
FolderPath(name) == ResultsPrefix \o name \o <<"/">>

\* Ids start with a letter and are shorter than folder names, so that
\* "<simulator>_<id>" fits a name.
UniqueIds == {<<"a">> \o s : s \in StringsUpTo(MaxNameLen - 3)}

\* The default simulator and the other names of at most one character.
SimulatorFilters == {JakubNet} \cup StringsUpTo(1)

\* Sequences of n distinct elements of S: a listing names a prefix once.
RECURSIVE DistinctSeqs(_, _)
DistinctSeqs(S, n) ==
    IF n = 0 THEN {<<>>}
    ELSE UNION {{<<x>> \o l : l \in DistinctSeqs(S \ {x}, n - 1)} : x \in S}

\* The listings of at most n results folders.
Listings(n) ==
    UNION {DistinctSeqs({FolderPath(nm) : nm \in FolderNames}, k) : k \in 0..n}

-----------------------------------------------------------------------------
(* Python string operations *)

\* s.endswith(suf)
EndsWith(s, suf) ==
    /\ Len(suf) <= Len(s)
    /\ SubSeq(s, Len(s) - Len(suf) + 1, Len(s)) = suf

\* sub in s
Contains(s, sub) ==
    \E i \in 0..(Len(s) - Len(sub)) : SubSeq(s, i + 1, i + Len(sub)) = sub

\* s.replace(old, ""): every non-overlapping occurrence of old, left to right,
\* is removed; an empty old leaves s as it is.
RECURSIVE RemoveAll(_, _)
RemoveAll(s, old) ==
    IF old = <<>> \/ Len(s) < Len(old) THEN s
    ELSE IF SubSeq(s, 1, Len(old)) = old
         THEN RemoveAll(SubSeq(s, Len(old) + 1, Len(s)), old)
         ELSE <<Head(s)>> \o RemoveAll(Tail(s), old)

RECURSIVE LStrip(_, _)
LStrip(s, c) == IF s # <<>> /\ Head(s) = c THEN LStrip(Tail(s), c) ELSE s

RECURSIVE RStrip(_, _)
RStrip(s, c) ==
    IF s # <<>> /\ s[Len(s)] = c THEN RStrip(SubSeq(s, 1, Len(s) - 1), c) ELSE s

\* s.strip(c)
Strip(s, c) == RStrip(LStrip(s, c), c)

\* s.split(c)[-1]: what follows the last c, or s when it holds no c
RECURSIVE LastSegment(_, _)
LastSegment(s, c) ==
    IF s = <<>> THEN <<>>
    ELSE IF s[Len(s)] = c THEN <<>>
    ELSE LastSegment(SubSeq(s, 1, Len(s) - 1), c) \o <<s[Len(s)]>>

\* S3DataSource.extract_folder_name
extract_folder_name(s3_path) == LastSegment(RStrip(s3_path, "/"), "/")

-----------------------------------------------------------------------------
(* Results-folder lookup *)

\* The loop over the listing returns at its first hit: the least of the
\* positions that hit, 0 when none does.
FirstHit(hits) ==
    IF hits = {} THEN 0 ELSE CHOOSE i \in hits : \A j \in hits : i <= j

\* The leaf name of the i-th folder of the listing.
NameAt(folders, i) == extract_folder_name(folders[i])

\* The tuple (None, ""); is_none tells the folder None from a path.
NoFolder == [is_none |-> TRUE, folder |-> <<>>, simulator |-> <<>>]

Folder(path, simulator) == [is_none |-> FALSE, folder |-> path, simulator |-> simulator]

NotReturned == [fn |-> "none", raised |-> None, value |-> <<>>]

NotListing == [pc |-> "idle", continuation_token |-> None, found |-> <<>>, requests |-> <<>>]

\* The call variables while another specification runs.
\* No match operation is under way.
NoWorkers == <<>>

CallIdle ==
    /\ args = <<>>
    /\ ret = NotReturned
    /\ listing = NotListing
    /\ workers = NoWorkers

\* The collector variables while another specification runs.
ExecIdle ==
    /\ pc = "Idle"
    /\ step = "none"
    /\ idx = 0
    /\ geometries = <<>>
    /\ car_filter = None
    /\ geometry_folders = <<>>
    /\ phases = <<>>
    /\ finished = <<>>
    /\ n_matched = 0
    /\ failed = None
    /\ raised = None
    /\ result = None
    /\ faults = {}
    /\ csv_written = {}
    /\ report_written = FALSE
    /\ looked_up = FALSE

\* The lookup variables while another specification runs.
FindIdle ==
    /\ unique_id = <<>>
    /\ simulator_filter = <<>>
    /\ all_folders = <<>>
    /\ found = NoFolder
    /\ matched = NoFolder
    /\ called = {}

\* A lookup that takes any folder whose name contains the id, whatever the filter.
SubstringLookup(folders, uid, filter) ==
    LET i == FirstHit({k \in 1..Len(folders) : Contains(NameAt(folders, k), uid)})
    IN IF i = 0 THEN NoFolder ELSE Folder(folders[i], filter)

\* SimulationRecord._find_results_folder
_find_results_folder(folders, uid, filter) ==
    IF filter = JakubNet
    THEN LET i == FirstHit({k \in 1..Len(folders) : NameAt(folders, k) = uid})
         IN IF i = 0 THEN NoFolder ELSE Folder(folders[i], JakubNet)
    ELSE LET expected_folder_name == filter \o <<"_">> \o uid
             i == FirstHit({k \in 1..Len(folders) :
                                NameAt(folders, k) = expected_folder_name})
         IN IF i = 0 THEN NoFolder ELSE Folder(folders[i], filter)

\* The simulator prefix ResultsMatcher.find_results_folder recovers from a name
\* that contains the id.
SimulatorPrefix(folder_name, uid) ==
    LET simulator == RemoveAll(RemoveAll(folder_name, <<"_">> \o uid), uid)
    IN IF simulator # <<>> THEN Strip(simulator, "_") ELSE JakubNet

\* ResultsMatcher.find_results_folder
find_results_folder(folders, uid) ==
    LET i == FirstHit({k \in 1..Len(folders) :
                          \/ NameAt(folders, k) = uid
                          \/ Contains(NameAt(folders, k), uid)})
    IN IF i = 0 THEN NoFolder
       ELSE LET folder_name == extract_folder_name(folders[i])
            IN IF folder_name = uid
               THEN Folder(folders[i], JakubNet)
               ELSE Folder(folders[i], SimulatorPrefix(folder_name, uid))


-----------------------------------------------------------------------------
(* SimulationRecord and the results the extractor hands to it *)

\* The keyword arguments find_and_extract_results and match_and_extract pass to
\* set_results.
ResultKwargs ==
    {"cd", "cl", "drag_n", "lift_n", "avg_cd", "avg_cl", "avg_drag_n", "avg_lift_n",
     "std_cd", "std_cl", "std_drag_n", "std_lift_n"}

\* The result fields no match operation sets.
OtherResultFields == {"cd_front", "cl_front", "cl_rear", "cs"}

IdentityFields ==
    {"car_name", "car_group", "geometry_name", "unique_id", "baseline_id",
     "morph_type", "morph_value"}

RecordFields ==
    IdentityFields \cup {"has_results", "simulator", "converged"}
        \cup ResultKwargs \cup OtherResultFields

\* SimulationRecord(...) as Discovery constructs it: identity and geometry fields
\* given, has_results False and every result field None.
SimulationRecord(car_name, car_group, geometry_name, uid, baseline_id, morph_type, morph_value) ==
    [f \in RecordFields |->
        CASE f = "car_name" -> car_name
          [] f = "car_group" -> car_group
          [] f = "geometry_name" -> geometry_name
          [] f = "unique_id" -> uid
          [] f = "baseline_id" -> baseline_id
          [] f = "morph_type" -> morph_type
          [] f = "morph_value" -> morph_value
          [] f = "has_results" -> FALSE
          [] OTHER -> None]

NotCalled == "not called"

\* SimulationRecord.is_complete
is_complete(rec) ==
    /\ rec["car_name"] # None
    /\ rec["baseline_id"] # None
    /\ rec["has_results"]

\* get_status with the label of a record that lacks car or baseline identity
\* given to a record without results.
GetStatusWithoutPending(rec) ==
    IF ~rec["has_results"] THEN "incomplete"
    ELSE IF is_complete(rec)
         THEN IF rec["converged"] = Some(TRUE) THEN "complete"
              ELSE "complete_not_converged"
         ELSE "incomplete"

\* SimulationRecord.get_status
get_status(rec) ==
    IF ~rec["has_results"] THEN "pending"
    ELSE IF is_complete(rec)
         THEN IF rec["converged"] = Some(TRUE) THEN "complete"
              ELSE "complete_not_converged"
         ELSE "incomplete"

\* results.get(key, default)
Get(results, key, default) ==
    IF key \in DOMAIN results THEN results[key] ELSE default

\* set_results that keeps the old value of a field whose new value is None.
SetResultsKeepingOld(rec, converged, simulator, kwargs) ==
    [f \in DOMAIN rec |->
        CASE f = "has_results" -> TRUE
          [] f = "converged" -> converged
          [] f = "simulator" -> simulator
          [] f \in DOMAIN kwargs /\ kwargs[f] # None -> kwargs[f]
          [] OTHER -> rec[f]]

\* A set_results that stores the results and leaves the simulator as it was.
SetResultsWithoutSimulator(rec, converged, simulator, kwargs) ==
    [f \in DOMAIN rec |->
        CASE f = "has_results" -> TRUE
          [] f = "converged" -> converged
          [] f \in DOMAIN kwargs -> kwargs[f]
          [] OTHER -> rec[f]]

\* SimulationRecord.set_results
set_results(rec, converged, simulator, kwargs) ==
    [f \in DOMAIN rec |->
        CASE f = "has_results" -> TRUE
          [] f = "converged" -> converged
          [] f = "simulator" -> simulator
          [] f \in DOMAIN kwargs -> kwargs[f]
          [] OTHER -> rec[f]]

\* The mapping extract_from_json returns for forces and coefficients of value v,
\* without the averaged keys of a force series.
ScalarResults(converged, v) ==
    [k \in {"converged", "drag_n", "lift_n", "cd", "cl"} |->
        IF k = "converged" THEN Some(converged) ELSE Some(v)]

\* The same with the averaged and std keys of a force series.
SeriesResults(converged, v) ==
    [k \in {"converged"} \cup ResultKwargs |->
        IF k = "converged" THEN Some(converged) ELSE Some(v)]

\* What a results folder can hold: no readable scalar JSON (None), or the
\* mapping the extractor builds from its files.
FolderContents ==
    {None, Some(SeriesResults(TRUE, 1)), Some(ScalarResults(FALSE, 2))}

\* ResultsExtractor.extract_from_folder on a folder of that content: None, or the
\* mapping with the caller's simulator label attached.
extract_from_folder(content, simulator) ==
    IF content = None THEN None
    ELSE Some([k \in DOMAIN content[1] \cup {"simulator"} |->
                 IF k = "simulator" THEN Some(simulator) ELSE content[1][k]])

\* A failed extraction that also clears what an earlier match had stored.
EnrichClearingOnFailure(rec, content, simulator) ==
    LET results == extract_from_folder(content, simulator)
    IN IF results = None
       THEN [f \in DOMAIN rec |->
               IF f = "has_results" THEN FALSE
               ELSE IF f \in {"simulator", "converged"} \cup ResultKwargs THEN None
               ELSE rec[f]]
       ELSE set_results(rec,
                        Get(results[1], "converged", Some(FALSE)),
                        Some(simulator),
                        [k \in ResultKwargs |-> Get(results[1], k, None)])

\* The record once a folder was matched and its content read: lines 126-150 of
\* find_and_extract_results, 50-77 of match_and_extract.
Enrich(rec, content, simulator) ==
    LET results == extract_from_folder(content, simulator)
    IN IF results = None
       THEN [rec EXCEPT !["has_results"] = FALSE]
       ELSE set_results(rec,
                        Get(results[1], "converged", Some(FALSE)),
                        Some(simulator),
                        [k \in ResultKwargs |-> Get(results[1], k, None)])

\* The content of the listed folder of that path.
ContentOf(ns, path) ==
    ns.content[CHOOSE i \in 1..Len(ns.folders) : ns.folders[i] = path]

\* SimulationRecord.find_and_extract_results
find_and_extract_results(rec, ns, filter) ==
    LET hit == _find_results_folder(ns.folders, rec["unique_id"], filter)
    IN IF hit.is_none
       THEN [rec EXCEPT !["has_results"] = FALSE]
       ELSE Enrich(rec, ContentOf(ns, hit.folder), hit.simulator)

\* ResultsMatcher.match_and_extract
match_and_extract(rec, ns) ==
    LET hit == find_results_folder(ns.folders, rec["unique_id"])
    IN IF hit.is_none
       THEN [rec EXCEPT !["has_results"] = FALSE]
       ELSE Enrich(rec, ContentOf(ns, hit.folder), hit.simulator)

\* The lookup a match operation starts with.
Lookup(op, rec, ns, filter) ==
    IF op = "match_and_extract"
    THEN find_results_folder(ns.folders, rec["unique_id"])
    ELSE _find_results_folder(ns.folders, rec["unique_id"], filter)

\* How a match operation ends: no folder, a folder without results, or results.
Outcome(op, rec, ns, filter) ==
    LET hit == Lookup(op, rec, ns, filter)
    IN IF hit.is_none THEN "no_folder"
       ELSE IF ContentOf(ns, hit.folder) = None THEN "extract_failed"
       ELSE "extracted"


-----------------------------------------------------------------------------------------------------------------------------------------------------
(* The matching specification: a record created by Discovery is matched any  *)
(* number of times, by either operation, while results folders appear in    *)
(* and disappear from the results namespace between two operations.         *)

\* The id of the record of this specification.
RecordId == <<"a">>

\* The simulators find_and_extract_results is asked for.
MatchFilters == {JakubNet, <<"D">>}

\* The folder names the results namespace is built from: the id alone, the id
\* with a simulator prefix, and a name that merely contains the id.
MatchNames == {<<"a">>, <<"D", "_", "a">>, <<"a", "b">>}

NoNamespace == [folders |-> <<>>, content |-> <<>>]

NoOperation ==
    [op |-> "none", filter |-> <<>>, before |-> None, fresh |-> FALSE]

MatchIdle ==
    /\ records = <<>>
    /\ namespace = NoNamespace
    /\ last = NoOperation
    /\ status = NotCalled

MatchInit ==
    /\ FindIdle
    /\ ExecIdle
    /\ CallIdle
    /\ records = <<SimulationRecord(Some(<<"c">>), Some(<<"g">>), RecordId, RecordId,
                                    Some(<<"c">>), None, Some(0))>>
    /\ namespace = NoNamespace
    /\ last = NoOperation
    /\ status = NotCalled

\* records[1].find_and_extract_results(data_source, extractor, prefix, filter)
FindAndExtractResults(filter) ==
    /\ records' = [records EXCEPT ![1] = find_and_extract_results(@, namespace, filter)]
    /\ last' = [op |-> "find_and_extract_results", filter |-> filter,
                before |-> Some(records[1]), fresh |-> TRUE]
    /\ UNCHANGED <<callVars, execVars, namespace, findVars, status>>

\* matcher.match_and_extract(records[1])
MatchAndExtract ==
    /\ records' = [records EXCEPT ![1] = match_and_extract(@, namespace)]
    /\ last' = [op |-> "match_and_extract", filter |-> <<>>,
                before |-> Some(records[1]), fresh |-> TRUE]
    /\ UNCHANGED <<callVars, execVars, namespace, findVars, status>>

\* A results folder appears at the end of the listing.
AddResultsFolder(name, content) ==
    /\ Len(namespace.folders) < MaxResultsFolders
    /\ \A i \in 1..Len(namespace.folders) : namespace.folders[i] # FolderPath(name)
    /\ namespace' = [folders |-> Append(namespace.folders, FolderPath(name)),
                     content |-> Append(namespace.content, content)]
    /\ last' = [last EXCEPT !.fresh = FALSE]
    /\ UNCHANGED <<callVars, execVars, records, findVars, status>>

\* The first results folder of the listing disappears.
RemoveResultsFolder ==
    /\ namespace.folders # <<>>
    /\ namespace' = [folders |-> Tail(namespace.folders),
                     content |-> Tail(namespace.content)]
    /\ last' = [last EXCEPT !.fresh = FALSE]
    /\ UNCHANGED <<callVars, execVars, records, findVars, status>>

MatchNext ==
    \/ \E filter \in MatchFilters : FindAndExtractResults(filter)
    \/ MatchAndExtract
    \/ \E name \in MatchNames, content \in FolderContents : AddResultsFolder(name, content)
    \/ RemoveResultsFolder

SpecMatch == MatchInit /\ [][MatchNext]_vars

\* The result fields of a record: everything a match can fill in.
ResultFields == {"simulator", "converged"} \cup ResultKwargs \cup OtherResultFields

\* C1: a record without results has simulator, converged and every force,
\* coefficient, averaged and std field unset, after any sequence of match operations.
C1_NoResultsMeansUnset ==
    \A i \in 1..Len(records) :
        ~records[i]["has_results"] => \A f \in ResultFields : records[i][f] = None

\* The last match operation, applied to rec against ns.
Apply(rec, ns) ==
    IF last.op = "match_and_extract"
    THEN match_and_extract(rec, ns)
    ELSE find_and_extract_results(rec, ns, last.filter)

\* C10: matching is idempotent and overwriting. Right after a match, matching
\* again against the unchanged namespace leaves the record as it is; and after a
\* match that extracted results, converged, simulator and every result field
\* passed to set_results hold the value of that result alone (None where the
\* result has no such key), whatever an earlier match had left in the record.
C10_IdempotentOverwrite ==
    last.fresh =>
        LET rec == records[1]
            hit == Lookup(last.op, rec, namespace, last.filter)
        IN /\ Apply(rec, namespace) = rec
           /\ Outcome(last.op, rec, namespace, last.filter) = "extracted" =>
                 LET results == ContentOf(namespace, hit.folder)[1]
                 IN /\ rec["has_results"]
                    /\ rec["converged"] = results["converged"]
                    /\ rec["simulator"] = Some(hit.simulator)
                    /\ \A f \in ResultKwargs : rec[f] = Get(results, f, None)

\* C10 witness: a record that held averaged values from an earlier match has just
\* been matched again, to a result without a force series, and holds none of them.
C10_Witness ==
    /\ last.fresh
    /\ last.before # None
    /\ last.before[1]["has_results"]
    /\ last.before[1]["avg_cd"] # None
    /\ Outcome(last.op, records[1], namespace, last.filter) = "extracted"
    /\ records[1]["avg_cd"] = None
    /\ records[1]["cd"] # last.before[1]["cd"]

-----------------------------------------------------------------------------
(* The status specification: get_status applied to a record whose fields are *)
(* drawn from the values the dataclass accepts.                             *)

\* A record with the given linkage state, identity and two of its other fields.
RecordWith(has_results, converged, car_name, baseline_id, simulator, cd, morph_type) ==
    [SimulationRecord(car_name, Some(<<"g">>), RecordId, RecordId, baseline_id, morph_type, Some(0))
        EXCEPT !["has_results"] = has_results, !["converged"] = converged,
               !["simulator"] = simulator, !["cd"] = cd]

StatusInit ==
    /\ FindIdle
    /\ ExecIdle
    /\ CallIdle
    /\ namespace = NoNamespace
    /\ last = NoOperation
    /\ status = NotCalled
    /\ \E has_results \in BOOLEAN, converged \in {None, Some(TRUE), Some(FALSE)},
          car_name \in {None, Some(<<"c">>)}, baseline_id \in {None, Some(<<"c">>)},
          simulator \in {None, Some(JakubNet)}, cd \in {None, Some(1)},
          morph_type \in {None, Some(<<"m">>)} :
            records = <<RecordWith(has_results, converged, car_name, baseline_id,
                                   simulator, cd, morph_type)>>

\* records[1].get_status()
GetStatus ==
    /\ status = NotCalled
    /\ status' = get_status(records[1])
    /\ UNCHANGED <<callVars, execVars, findVars, matchVars>>

StatusNext == GetStatus

SpecStatus == StatusInit /\ [][StatusNext]_vars

C9_StatusOfTests ==
    status # NotCalled =>
        LET rec == records[1]
        IN /\ ~rec["has_results"] => status = "No Results"
           /\ rec["has_results"] /\ rec["converged"] = Some(TRUE) => status = "Converged"
           /\ rec["has_results"] /\ rec["converged"] = Some(FALSE) =>
                 status = "Not Converged"
           /\ rec["has_results"] /\ rec["converged"] = None => status = "Unknown"

-----------------------------------------------------------------------------
(* The lookup specification: the inputs are drawn from the bounded sets and  *)
(* each lookup is applied to them.                                          *)

FindInit ==
    /\ MatchIdle
    /\ ExecIdle
    /\ CallIdle
    /\ all_folders \in Listings(MaxFolders)
    /\ unique_id \in UniqueIds
    /\ simulator_filter \in SimulatorFilters
    /\ found = NoFolder
    /\ matched = NoFolder
    /\ called = {}

\* record._find_results_folder(data_source, results_prefix, simulator_filter)
FindResultsFolderOfRecord ==
    /\ "record" \notin called
    /\ found' = _find_results_folder(all_folders, unique_id, simulator_filter)
    /\ called' = called \cup {"record"}
    /\ UNCHANGED <<callVars, execVars, unique_id, simulator_filter, all_folders, matched, matchVars, status>>

\* matcher.find_results_folder(unique_id)
FindResultsFolderOfMatcher ==
    /\ "matcher" \notin called
    /\ matched' = find_results_folder(all_folders, unique_id)
    /\ called' = called \cup {"matcher"}
    /\ UNCHANGED <<callVars, execVars, unique_id, simulator_filter, all_folders, found, matchVars, status>>

FindNext == FindResultsFolderOfRecord \/ FindResultsFolderOfMatcher

SpecFind == FindInit /\ [][FindNext]_vars

\* The leaf names of the listing.
LeafNames(folders) == {extract_folder_name(folders[i]) : i \in 1..Len(folders)}

\* The leaf name the matching rule asks for.
ExpectedName(uid, filter) ==
    IF filter = JakubNet THEN uid ELSE filter \o <<"_">> \o uid

\* C2: _find_results_folder returns a folder of the listing only when its leaf
\* name is unique_id (default filter) or "X_" + unique_id (any other filter X),
\* with the simulator asked for; under a filter X a folder named unique_id alone
\* is never returned, under the default filter a folder named "X_" + unique_id is
\* never returned, and without such a folder the result is (None, "").
C2_ExactRule ==
    "record" \in called =>
        /\ ~found.is_none =>
              /\ \E i \in 1..Len(all_folders) : all_folders[i] = found.folder
              /\ extract_folder_name(found.folder) = ExpectedName(unique_id, simulator_filter)
              /\ found.simulator = simulator_filter
              /\ simulator_filter # JakubNet =>
                    extract_folder_name(found.folder) # unique_id
              /\ simulator_filter = JakubNet =>
                    \A X \in SimulatorFilters :
                        extract_folder_name(found.folder) # X \o <<"_">> \o unique_id
        /\ ExpectedName(unique_id, simulator_filter) \notin LeafNames(all_folders) =>
              found = NoFolder
        /\ ExpectedName(unique_id, simulator_filter) \in LeafNames(all_folders) =>
              ~found.is_none

\* C2 witness: under a non-default filter X the listing holds both a folder named
\* unique_id and, after it, the folder "X_" + unique_id, which is the one returned.
C2_Witness ==
    /\ "record" \in called
    /\ simulator_filter # JakubNet
    /\ Len(all_folders) = 2
    /\ extract_folder_name(all_folders[1]) = unique_id
    /\ ~found.is_none
    /\ found.folder = all_folders[2]

\* C3: ResultsMatcher.find_results_folder returns only a folder whose leaf name
\* equals unique_id or "<simulator>_<unique_id>", never one that merely contains
\* unique_id, and (None, "") when no folder is equal.
C3_ExactOnly ==
    "matcher" \in called =>
        /\ ~matched.is_none =>
              \/ extract_folder_name(matched.folder) = unique_id
              \/ EndsWith(extract_folder_name(matched.folder), <<"_">> \o unique_id)
        /\ (\A n \in LeafNames(all_folders) :
                n # unique_id /\ ~EndsWith(n, <<"_">> \o unique_id)) =>
              matched = NoFolder

-----------------------------------------------------------------------------
(* The collector specification: one run of ValidationDataCollector.execute   *)
(* over a geometries namespace and a results namespace, every store call of *)
(* the run either answering or meeting an error of the store.               *)

MaxGeometries == 2  \* most leaf folders of the geometries namespace

\* '_Symmetric', collector.py:113
Symmetric == <<"_", "S", "y", "m", "m", "e", "t", "r", "i", "c">>

\* '_Morph_', collector.py:117
MorphSeparator == <<"_", "M", "o", "r", "p", "h", "_">>

\* 'Unknown', collector.py:117
Unknown == <<"U", "n", "k", "n", "o", "w", "n">>

\* 'unknown', collector.py:119
unknown == <<"u", "n", "k", "n", "o", "w", "n">>

\* config.car_groups
car_groups == (<<"c">> :> <<"S", "U", "V">>)

\* config.output_path
output_path == <<"o">>

\* config.geometries_prefix, with the trailing delimiter list_folders adds.
GeometriesPrefix == <<"g", "/">>

\* The leaf name and the id of the i-th geometry folder.
GeometryNames == <<"p", "q", "s", "t">>

GeometryIds == <<"a", "b", "e", "f">>

GeometryPath(i) == GeometriesPrefix \o <<GeometryNames[i], "/">>

\* s.split(sep)[0]
BeforeFirst(s, sep) ==
    LET at == {i \in 1..Len(s) : SubSeq(s, i, i + Len(sep) - 1) = sep}
    IN IF at = {} THEN s ELSE SubSeq(s, 1, FirstHit(at) - 1)

\* The sidecar JSON of a baseline geometry of car c and of a morphed geometry
\* of car d: morph_parameters in the order of the JSON object.
BaselineJson(i) ==
    [unique_id |-> <<GeometryIds[i]>>,
     parent_baseline_id |-> <<"c">> \o Symmetric,
     morph_parameters |-> <<<< <<"m">>, 0 >>>>]

MorphJson(i) ==
    [unique_id |-> <<GeometryIds[i]>>,
     parent_baseline_id |-> <<"d">>,
     morph_parameters |-> <<<< <<"m">>, 0 >>, << <<"h">>, 10 >>>>]

\* What the i-th leaf folder holds: no .json file, a .json file that does not
\* parse, or one of the two sidecars.
Sidecars(i) ==
    {[file |-> FALSE, json |-> None], [file |-> TRUE, json |-> None],
     [file |-> TRUE, json |-> Some(BaselineJson(i))],
     [file |-> TRUE, json |-> Some(MorphJson(i))]}

\* The geometries namespaces of exactly n, and of at most n, leaf folders.
RECURSIVE TreesOfSize(_)
TreesOfSize(n) ==
    IF n = 0 THEN {<<>>}
    ELSE {Append(t, sc) : t \in TreesOfSize(n - 1), sc \in Sidecars(n)}

GeometryTrees(n) == UNION {TreesOfSize(k) : k \in 0..n}

\* The sidecar of the listed geometry folder of that path.
SidecarOf(tree, path) ==
    tree[CHOOSE i \in 1..Len(tree) : GeometryPath(i) = path]

CarFilters == {None, Some(<<"c">>)}

\* An error of the object store at one call: a botocore ClientError (access
\* denied) or a connection failure, which is not a ClientError.
FaultKinds == {"ClientError", "ConnectionError"}

NoFault == [site |-> "none", kind |-> "none"]

FaultsAt(sites) == {[site |-> s, kind |-> k] : s \in sites, k \in FaultKinds}

\* Whether S3DataSource answers the error with a normal return: the content
\* check (108-117) and read_json (186-191) catch ClientError, read_csv (216-224)
\* catches everything, list_folders (79-81) and list_files (163-165) re-raise.
Swallowed(fault) ==
    CASE fault.site = "content_check" -> fault.kind = "ClientError"
      [] fault.site = "read_json" -> fault.kind = "ClientError"
      [] fault.site = "read_csv" -> TRUE
      [] OTHER -> FALSE

Raises(fault) == fault # NoFault /\ ~Swallowed(fault)

\* MetadataExtractor._extract_car_name
_extract_car_name(uid, baseline_id) ==
    IF baseline_id # <<>> THEN RemoveAll(baseline_id, Symmetric)
    ELSE IF uid # <<>> THEN RemoveAll(BeforeFirst(uid, MorphSeparator), Symmetric)
    ELSE Unknown

\* An _extract_morph_info that keeps the last item whose value is not zero.
ExtractLastMorph(morph_parameters) ==
    LET nonzero == {i \in 1..Len(morph_parameters) : morph_parameters[i][2] # 0}
        last_one == CHOOSE i \in nonzero : \A j \in nonzero : j <= i
    IN IF nonzero = {} THEN <<None, Some(0)>>
       ELSE <<Some(morph_parameters[last_one][1]), Some(morph_parameters[last_one][2])>>

\* MetadataExtractor._extract_morph_info
_extract_morph_info(morph_parameters) ==
    LET nonzero == {i \in 1..Len(morph_parameters) : morph_parameters[i][2] # 0}
    IN IF nonzero = {} THEN <<None, Some(0)>>
       ELSE <<Some(morph_parameters[FirstHit(nonzero)][1]),
              Some(morph_parameters[FirstHit(nonzero)][2])>>

\* MetadataExtractor.parse_geometry_json
parse_geometry_json(json_data) ==
    LET info == _extract_morph_info(json_data.morph_parameters)
    IN [unique_id |-> json_data.unique_id,
        car_name |-> _extract_car_name(json_data.unique_id, json_data.parent_baseline_id),
        baseline_id |-> json_data.parent_baseline_id,
        morph_type |-> info[1],
        morph_value |-> info[2]]

\* MetadataExtractor.extract_from_folder: None without a .json file and when
\* read_json returns None, which it also does on a ClientError.
MetadataExtractor_extract_from_folder(sidecar, fault) ==
    LET json_data == IF fault.site = "read_json" THEN None ELSE sidecar.json
    IN IF ~sidecar.file THEN None
       ELSE IF json_data = None THEN None
       ELSE Some(parse_geometry_json(json_data[1]))

\* A _create_simulation_record that builds a record from the folder name alone
\* where the folder gave no metadata.
CreateRecordWithoutMetadata(geometry_folder, sidecar, fault) ==
    LET metadata == MetadataExtractor_extract_from_folder(sidecar, fault)
    IN IF metadata = None
       THEN Some(SimulationRecord(Some(Unknown), Some(unknown),
                                  extract_folder_name(geometry_folder),
                                  extract_folder_name(geometry_folder),
                                  Some(<<>>), None, None))
       ELSE LET baseline_id == metadata[1].baseline_id
                uid == metadata[1].unique_id
                car_name == IF baseline_id # <<>>
                            THEN RemoveAll(baseline_id, Symmetric)
                            ELSE IF uid # <<>>
                                 THEN RemoveAll(BeforeFirst(uid, MorphSeparator), Symmetric)
                                 ELSE Unknown
                car_group == IF car_name \in DOMAIN car_groups
                             THEN car_groups[car_name] ELSE unknown
            IN Some(SimulationRecord(Some(car_name), Some(car_group),
                                     extract_folder_name(geometry_folder), uid,
                                     Some(baseline_id), metadata[1].morph_type,
                                     metadata[1].morph_value))

\* ValidationDataCollector._create_simulation_record
_create_simulation_record(geometry_folder, sidecar, fault) ==
    LET metadata == MetadataExtractor_extract_from_folder(sidecar, fault)
    IN IF metadata = None THEN None
       ELSE LET baseline_id == metadata[1].baseline_id
                uid == metadata[1].unique_id
                car_name == IF baseline_id # <<>>
                            THEN RemoveAll(baseline_id, Symmetric)
                            ELSE IF uid # <<>>
                                 THEN RemoveAll(BeforeFirst(uid, MorphSeparator), Symmetric)
                                 ELSE Unknown
                car_group == IF car_name \in DOMAIN car_groups
                             THEN car_groups[car_name] ELSE unknown
            IN Some(SimulationRecord(Some(car_name), Some(car_group),
                                     extract_folder_name(geometry_folder), uid,
                                     Some(baseline_id), metadata[1].morph_type,
                                     metadata[1].morph_value))

\* One iteration of the loop of discover_all: None when the folder gives no
\* record, when the try block catches an exception and when the car filter
\* drops the record.
DiscoverOne(geometry_folder, sidecar, filter, fault) ==
    LET record == IF Raises(fault) THEN None
                  ELSE _create_simulation_record(geometry_folder, sidecar, fault)
    IN IF record = None THEN None
       ELSE IF filter = None \/ record[1]["car_name"] = filter THEN record
       ELSE None

\* The keys of a result mapping that come from the scalar JSON.
ScalarKeys == {"converged", "drag_n", "lift_n", "cd", "cl"}

\* The content of a results folder whose force series could not be read.
DropSeries(content) ==
    IF content = None THEN None
    ELSE Some([k \in DOMAIN content[1] \cap ScalarKeys |-> content[1][k]])

\* The results namespace as one match operation sees it under an error the
\* data source swallows: a failed content check drops the first folder from
\* the listing, a failed read_json or read_csv of the matched folder leaves
\* the extractor without that file.
SeenNamespace(ns, uid, fault) ==
    LET hit == find_results_folder(ns.folders, uid)
        Reread(i) ==
            IF ns.folders[i] # hit.folder THEN ns.content[i]
            ELSE IF fault.site = "read_json" THEN None
            ELSE DropSeries(ns.content[i])
    IN IF fault.site = "content_check"
       THEN [folders |-> Tail(ns.folders), content |-> Tail(ns.content)]
       ELSE IF fault.site \in {"read_json", "read_csv"} /\ ~hit.is_none
       THEN [folders |-> ns.folders,
             content |-> [i \in 1..Len(ns.folders) |-> Reread(i)]]
       ELSE ns

\* The store calls one match operation makes in that namespace.
MatchSites(ns, uid) ==
    LET hit == find_results_folder(ns.folders, uid)
    IN {"list_folders"}
        \cup (IF ns.folders # <<>> THEN {"content_check"} ELSE {})
        \cup (IF ~hit.is_none THEN {"list_files"} ELSE {})
        \cup (IF ~hit.is_none /\ ContentOf(ns, hit.folder) # None
              THEN {"read_json"} ELSE {})
        \cup (IF ~hit.is_none /\ ContentOf(ns, hit.folder) # None
                 /\ "avg_cd" \in DOMAIN ContentOf(ns, hit.folder)[1]
              THEN {"read_csv"} ELSE {})

\* The results namespaces of a run: empty, or one folder named by the id of
\* the first geometry or by a longer name that contains it.
ExecNamespaces ==
    {NoNamespace}
        \cup {[folders |-> <<FolderPath(nm)>>, content |-> <<c>>] :
                nm \in {<<"a">>, <<"a", "b">>}, c \in FolderContents}

\* An execute that goes from Matching to Report without the export.
NextPhaseWithoutExport(phase) ==
    CASE phase = "Discovery" -> "Matching"
      [] phase = "Matching" -> "Report"
      [] phase = "Export" -> "Report"
      [] phase = "Report" -> "Done"

\* The order of the phases in execute, collector.py:153-214.
NextPhase(phase) ==
    CASE phase = "Discovery" -> "Matching"
      [] phase = "Matching" -> "Export"
      [] phase = "Export" -> "Report"
      [] phase = "Report" -> "Done"

\* An execute without the short circuit.
NeverShortCircuit(simulation_records) == FALSE

\* len(simulation_records) == 0, collector.py:162
NoGeometries(simulation_records) == Len(simulation_records) = 0

\* The dictionary of collector.py:164-169.
NoGeometriesResult ==
    [status |-> "no_geometries", total_geometries |-> 0, with_results |-> 0,
     without_results |-> 0]

\* A summary that counts the converged records as the ones with results.
SuccessCountingConverged(simulation_records) ==
    LET with_results ==
            Cardinality({i \in 1..Len(simulation_records) :
                            simulation_records[i]["converged"] = Some(TRUE)})
    IN [status |-> "success", total_geometries |-> Len(simulation_records),
        with_results |-> with_results,
        without_results |-> Len(simulation_records) - with_results,
        output_path |-> output_path]

\* The dictionary of collector.py:208-214, with the counts of lines 178-179.
SuccessResult(simulation_records) ==
    LET with_results ==
            Cardinality({i \in 1..Len(simulation_records) :
                            simulation_records[i]["has_results"]})
    IN [status |-> "success", total_geometries |-> Len(simulation_records),
        with_results |-> with_results,
        without_results |-> Len(simulation_records) - with_results,
        output_path |-> output_path]

\* A handler that reports the error in a status dictionary.
ReturnErrorStatus(exc) ==
    [raised |-> None, result |-> Some([status |-> "error", error |-> exc])]

\* except Exception as e: logger.error(...); raise, collector.py:216-218
ExceptHandler(exc) == [raised |-> Some(exc), result |-> None]

ExecInit ==
    /\ FindIdle
    /\ CallIdle
    /\ last = NoOperation
    /\ status = NotCalled
    /\ records = <<>>
    /\ namespace \in ExecNamespaces
    /\ geometries \in GeometryTrees(MaxGeometries)
    /\ car_filter \in CarFilters
    /\ pc = "Start"
    /\ step = "none"
    /\ idx = 0
    /\ geometry_folders = <<>>
    /\ phases = <<>>
    /\ finished = <<>>
    /\ n_matched = 0
    /\ failed = None
    /\ raised = None
    /\ result = None
    /\ faults = {}
    /\ csv_written = {}
    /\ report_written = FALSE
    /\ looked_up = FALSE

\* What no step of a run changes.
Fixed ==
    UNCHANGED <<findVars, callVars, last, status, namespace, geometries, car_filter>>

\* The call of the current phase raises: the except clause of execute ends
\* the run.
Raise(exc) ==
    /\ failed' = Some(pc)
    /\ raised' = ExceptHandler(exc).raised
    /\ result' = ExceptHandler(exc).result
    /\ pc' = "Done"
    /\ step' = "none"

\* The store call of a step answered or met this error.
Met(fault) == faults' = IF fault = NoFault THEN faults ELSE faults \cup {fault}

\* execute(car_filter) is called: phase 1 starts with discover_all.
StartExecute ==
    /\ pc = "Start"
    /\ pc' = "Discovery"
    /\ step' = "list_folders"
    /\ phases' = <<"Discovery">>
    /\ Fixed
    /\ UNCHANGED <<records, idx, geometry_folders, finished, n_matched, failed,
                   raised, result, faults, csv_written, report_written, looked_up>>

\* list_folders(geometries_prefix), collector.py:71: the listing of the
\* sub-folders of the prefix, s3_data_source.py:103.
ListGeometryFolders(fault) ==
    /\ pc = "Discovery"
    /\ step = "list_folders"
    /\ fault \in {NoFault} \cup FaultsAt({"list_folders"})
    /\ Met(fault)
    /\ IF Raises(fault)
       THEN Raise(fault.kind) /\ UNCHANGED idx
       ELSE /\ step' = IF geometries = <<>> THEN "create" ELSE "leaf"
            /\ idx' = 1
            /\ UNCHANGED <<pc, failed, raised, result>>
    /\ Fixed
    /\ UNCHANGED <<records, geometry_folders, phases, finished, n_matched,
                   csv_written, report_written, looked_up>>

\* _list_leaf_folders_recursive on the idx-th sub-folder: its sub-folders are
\* listed (none), then its content is checked, s3_data_source.py:103-117.
CheckLeaf(fault) ==
    /\ pc = "Discovery"
    /\ step = "leaf"
    /\ idx <= Len(geometries)
    /\ fault \in {NoFault} \cup FaultsAt({"list_folders", "content_check"})
    /\ Met(fault)
    /\ IF Raises(fault)
       THEN Raise(fault.kind) /\ UNCHANGED <<idx, geometry_folders>>
       ELSE /\ geometry_folders' =
                    IF fault = NoFault
                    THEN Append(geometry_folders, GeometryPath(idx))
                    ELSE geometry_folders
            /\ step' = IF idx = Len(geometries) THEN "create" ELSE "leaf"
            /\ idx' = IF idx = Len(geometries) THEN 1 ELSE idx + 1
            /\ UNCHANGED <<pc, failed, raised, result>>
    /\ Fixed
    /\ UNCHANGED <<records, phases, finished, n_matched, csv_written,
                   report_written, looked_up>>

\* One iteration of the loop of discover_all, collector.py:75-84.
CreateRecord(fault) ==
    /\ pc = "Discovery"
    /\ step = "create"
    /\ idx <= Len(geometry_folders)
    /\ fault \in {NoFault} \cup FaultsAt({"list_files", "read_json"})
    /\ fault.site = "read_json" => SidecarOf(geometries, geometry_folders[idx]).file
    /\ Met(fault)
    /\ LET record == DiscoverOne(geometry_folders[idx],
                                 SidecarOf(geometries, geometry_folders[idx]),
                                 car_filter, fault)
       IN records' = IF record = None THEN records ELSE Append(records, record[1])
    /\ idx' = idx + 1
    /\ Fixed
    /\ UNCHANGED <<pc, step, geometry_folders, phases, finished, n_matched, failed,
                   raised, result, csv_written, report_written, looked_up>>

\* discover_all returns, collector.py:158-176: without records execute
\* returns the no_geometries dictionary, otherwise phase 2 starts.
DiscoveryReturns ==
    /\ pc = "Discovery"
    /\ step = "create"
    /\ idx > Len(geometry_folders)
    /\ finished' = Append(finished, "Discovery")
    /\ step' = "none"
    /\ IF NoGeometries(records)
       THEN /\ result' = Some(NoGeometriesResult)
            /\ pc' = "Done"
            /\ UNCHANGED <<phases, idx>>
       ELSE /\ pc' = NextPhase("Discovery")
            /\ phases' = Append(phases, NextPhase("Discovery"))
            /\ idx' = 1
            /\ UNCHANGED result
    /\ Fixed
    /\ UNCHANGED <<records, geometry_folders, n_matched, failed, raised, faults,
                   csv_written, report_written, looked_up>>

\* match_all matches the idx-th record: the results namespace is listed and
\* the matched folder read; an error the data source raises leaves match_all.
MatchRecord(fault) ==
    /\ pc = "Matching"
    /\ idx <= Len(records)
    /\ fault \in {NoFault} \cup FaultsAt(MatchSites(namespace, records[idx]["unique_id"]))
    /\ Met(fault)
    /\ looked_up' = TRUE
    /\ IF Raises(fault)
       THEN Raise(fault.kind) /\ UNCHANGED <<records, idx, n_matched>>
       ELSE /\ records' = [records EXCEPT ![idx] =
                    match_and_extract(@, SeenNamespace(namespace, @["unique_id"], fault))]
            /\ idx' = idx + 1
            /\ n_matched' = n_matched + 1
            /\ UNCHANGED <<pc, step, failed, raised, result>>
    /\ Fixed
    /\ UNCHANGED <<geometry_folders, phases, finished, csv_written, report_written>>

\* match_all returns, collector.py:176-186: the counts are taken and phase 3
\* starts.
MatchingReturns ==
    /\ pc = "Matching"
    /\ idx > Len(records)
    /\ finished' = Append(finished, "Matching")
    /\ pc' = NextPhase("Matching")
    /\ phases' = Append(phases, NextPhase("Matching"))
    /\ Fixed
    /\ UNCHANGED <<records, step, idx, geometry_folders, n_matched, failed, raised,
                   result, faults, csv_written, report_written, looked_up>>

\* The cars of the records: one CSV file each, csv_exporter.py:142-160.
Cars(simulation_records) ==
    {simulation_records[i]["car_name"] : i \in 1..Len(simulation_records)}

\* exporter.export_grouped_by_car(simulation_records), collector.py:188: the
\* files of the cars in written are written; the call raises when the write
\* of another fails.
Export(written) ==
    /\ pc = "Export"
    /\ written \in SUBSET Cars(records)
    /\ csv_written' = written
    /\ IF written # Cars(records)
       THEN Raise("OSError") /\ UNCHANGED <<phases, finished>>
       ELSE /\ finished' = Append(finished, "Export")
            /\ pc' = NextPhase("Export")
            /\ phases' = Append(phases, NextPhase("Export"))
            /\ UNCHANGED <<step, failed, raised, result>>
    /\ Fixed
    /\ UNCHANGED <<records, idx, geometry_folders, n_matched, faults,
                   report_written, looked_up>>

\* report_generator.generate_validation_summary, collector.py:197-214: the
\* report is saved and execute returns the success dictionary, or save_report
\* raises.
Report(saved) ==
    /\ pc = "Report"
    /\ saved \in BOOLEAN
    /\ report_written' = saved
    /\ IF ~saved
       THEN Raise("OSError") /\ UNCHANGED finished
       ELSE /\ finished' = Append(finished, "Report")
            /\ pc' = NextPhase("Report")
            /\ result' = Some(SuccessResult(records))
            /\ UNCHANGED <<step, failed, raised>>
    /\ Fixed
    /\ UNCHANGED <<records, idx, geometry_folders, phases, n_matched, faults,
                   csv_written, looked_up>>

ExecNext ==
    \/ StartExecute
    \/ \E fault \in {NoFault} \cup FaultsAt({"list_folders"}) : ListGeometryFolders(fault)
    \/ \E fault \in {NoFault} \cup FaultsAt({"list_folders", "content_check"}) :
            CheckLeaf(fault)
    \/ \E fault \in {NoFault} \cup FaultsAt({"list_files", "read_json"}) :
            CreateRecord(fault)
    \/ DiscoveryReturns
    \/ \E fault \in {NoFault}
            \cup FaultsAt({"list_folders", "content_check", "list_files",
                           "read_json", "read_csv"}) : MatchRecord(fault)
    \/ MatchingReturns
    \/ \E written \in SUBSET {Some(<<"c">>), Some(<<"d">>)} : Export(written)
    \/ \E saved \in BOOLEAN : Report(saved)

SpecExec == ExecInit /\ [][ExecNext]_vars

\* The phases of a complete run.
PhaseOrder == <<"Discovery", "Matching", "Export", "Report">>

IsPrefix(s, t) == Len(s) <= Len(t) /\ s = SubSeq(t, 1, Len(s))

Returned(st) == result # None /\ result[1].status = st

\* C4: in a run of execute that returns 'success' the phases Discovery,
\* Matching, Export, Report each occur once and in this order: at every
\* moment the phases started are a prefix of that order and all but the last
\* started have returned, the export starts only with every record matched,
\* and at the return all four have started and returned.
C4_PhasesInOrder ==
    /\ IsPrefix(phases, PhaseOrder)
    /\ IsPrefix(finished, phases)
    /\ Len(phases) <= Len(finished) + 1
    /\ (\E i \in 1..Len(phases) : phases[i] = "Export") => n_matched = Len(records)
    /\ Returned("success") =>
            /\ phases = PhaseOrder
            /\ finished = PhaseOrder
            /\ n_matched = Len(records)

C4_Witness ==
    /\ Returned("success")
    /\ Len(records) = 2
    /\ n_matched = 2
    /\ result[1].with_results = 1

\* C5: when Discovery yields zero records execute returns 'no_geometries'
\* with the three counts 0, and no later phase is entered: the results
\* namespace is not listed, no CSV and no report is written.
C5_NoGeometriesShortCircuit ==
    (finished # <<>> /\ records = <<>>) =>
        /\ pc = "Done"
        /\ result = Some(NoGeometriesResult)
        /\ result[1].total_geometries = 0
        /\ result[1].with_results = 0
        /\ result[1].without_results = 0
        /\ phases = <<"Discovery">>
        /\ finished = <<"Discovery">>
        /\ ~looked_up
        /\ csv_written = {}
        /\ ~report_written

C5_Witness ==
    /\ Returned("no_geometries")
    /\ Len(geometry_folders) = 2
    /\ car_filter # None

\* C6: when the call of a phase raises, execute ends by raising that
\* exception: no dictionary is returned, the failing phase is the last one
\* started and has not returned, and the later phases have written nothing.
C6_ExceptionPropagates ==
    failed # None =>
        /\ pc = "Done"
        /\ raised # None
        /\ result = None
        /\ phases # <<>>
        /\ phases[Len(phases)] = failed[1]
        /\ \A i \in 1..Len(finished) : finished[i] # failed[1]
        /\ failed[1] \in {"Discovery", "Matching"} => csv_written = {}
        /\ ~report_written

C6_Witness ==
    /\ failed = Some("Discovery")
    /\ raised = Some("ClientError")
    /\ Len(geometry_folders) = 1
    /\ phases = <<"Discovery">>

\* C7: an error of the store at any store call of a run is fatal: once a call
\* has met one, execute has raised to its caller.
C7_StoreErrorsAreFatal ==
    faults # {} => raised # None

-----------------------------------------------------------------------------
(* Numbers: Python floats are modelled as exact rationals num/den in lowest *)
(* terms with den > 0, so that equalities between computed values are       *)
(* decided by the arithmetic and not by rounding.                           *)

Abs(n) == IF n < 0 THEN -n ELSE n

RECURSIVE GCD(_, _)
GCD(a, b) == IF b = 0 THEN a ELSE GCD(b, a % b)

\* The rational n/d, d # 0, in lowest terms.
Rat(n, d) ==
    LET g == GCD(Abs(n), Abs(d))
        sign == IF d < 0 THEN -1 ELSE 1
    IN [num |-> sign * (n \div g), den |-> sign * (d \div g)]

Int2Rat(n) == [num |-> n, den |-> 1]

RAdd(x, y) == Rat(x.num * y.den + y.num * x.den, x.den * y.den)

RSub(x, y) == Rat(x.num * y.den - y.num * x.den, x.den * y.den)

RMul(x, y) == Rat(x.num * y.num, x.den * y.den)

\* What stands for the ZeroDivisionError Python raises on a division by zero:
\* no rational has the denominator 0.
ZeroDivisionError == [num |-> 0, den |-> 0]

\* x / y
RDiv(x, y) ==
    IF y.num = 0 THEN ZeroDivisionError ELSE Rat(x.num * y.den, x.den * y.num)

\* The defaults of results_extractor.py:90-92: 1.225, 30.0, 1.0
DefaultDensity == Rat(49, 40)

DefaultVelocity == Int2Rat(30)

DefaultArea == Int2Rat(1)

\* mapping.get(key, default) for a mapping whose values are numbers
GetOr(mapping, key, default) ==
    IF key \in DOMAIN mapping THEN mapping[key] ELSE default

\* mapping.get(key): None for a key the mapping lacks
GetOpt(mapping, key) ==
    IF key \in DOMAIN mapping THEN Some(mapping[key]) ELSE None

\* The empty mapping {}
EmptyMapping == [k \in {} |-> 0]

\* density * velocity**2 * area, results_extractor.py:231
dynamic_pressure_area(density, velocity, area) ==
    RMul(RMul(density, RMul(velocity, velocity)), area)

\* calculate_coefficients without the factor 2.
CoefficientsWithoutFactor(drag_n, lift_n, density, velocity, area) ==
    LET q == dynamic_pressure_area(density, velocity, area)
    IN IF q.num = 0 THEN <<None, None>>
       ELSE <<Some(RDiv(drag_n, q)), Some(RDiv(lift_n, q))>>

\* calculate_coefficients without the test of line 233.
CoefficientsUnguarded(drag_n, lift_n, density, velocity, area) ==
    LET q == dynamic_pressure_area(density, velocity, area)
    IN <<Some(RDiv(RMul(Int2Rat(2), drag_n), q)), Some(RDiv(RMul(Int2Rat(2), lift_n), q))>>

\* calculate_coefficients dividing by density * velocity * area.
CoefficientsLinearVelocity(drag_n, lift_n, density, velocity, area) ==
    LET q == RMul(RMul(density, velocity), area)
    IN IF q.num = 0 THEN <<None, None>>
       ELSE <<Some(RDiv(RMul(Int2Rat(2), drag_n), q)),
              Some(RDiv(RMul(Int2Rat(2), lift_n), q))>>

\* ResultsExtractor.calculate_coefficients: the pair (cd, cl)
calculate_coefficients(drag_n, lift_n, density, velocity, area) ==
    LET q == dynamic_pressure_area(density, velocity, area)
    IN IF q.num = 0 THEN <<None, None>>
       ELSE <<Some(RDiv(RMul(Int2Rat(2), drag_n), q)),
              Some(RDiv(RMul(Int2Rat(2), lift_n), q))>>

\* extract_from_json computing each coefficient from its own force alone.
ExtractJsonPerForce(json_data) ==
    LET results_section == GetOr(json_data, "results", EmptyMapping)
        parameters == GetOr(json_data, "parameters", EmptyMapping)
        flag == GetOr(results_section, "Converged_Flag", Int2Rat(0))
        lift_100 == GetOpt(results_section, "Lift_100[N]")
        drag_100 == GetOpt(results_section, "Drag_100[N]")
        density == GetOr(parameters, "Ref_Density[kg/m^3]", DefaultDensity)
        velocity == GetOr(parameters, "Ref_Velocity[m/s]", DefaultVelocity)
        area == GetOr(parameters, "A[m^2]", DefaultArea)
        q == dynamic_pressure_area(density, velocity, area)
    IN [converged |-> flag.num # 0,
        drag_n |-> drag_100,
        lift_n |-> lift_100,
        cd |-> IF drag_100 = None \/ q.num = 0 THEN None
               ELSE Some(RDiv(RMul(Int2Rat(2), drag_100[1]), q)),
        cl |-> IF lift_100 = None \/ q.num = 0 THEN None
               ELSE Some(RDiv(RMul(Int2Rat(2), lift_100[1]), q)),
        density |-> density,
        velocity |-> velocity,
        area |-> area]

\* ResultsExtractor.extract_from_json
extract_from_json(json_data) ==
    LET results_section == GetOr(json_data, "results", EmptyMapping)
        parameters == GetOr(json_data, "parameters", EmptyMapping)
        flag == GetOr(results_section, "Converged_Flag", Int2Rat(0))
        lift_100 == GetOpt(results_section, "Lift_100[N]")
        drag_100 == GetOpt(results_section, "Drag_100[N]")
        density == GetOr(parameters, "Ref_Density[kg/m^3]", DefaultDensity)
        velocity == GetOr(parameters, "Ref_Velocity[m/s]", DefaultVelocity)
        area == GetOr(parameters, "A[m^2]", DefaultArea)
        coefficients ==
            IF drag_100 # None /\ lift_100 # None
            THEN calculate_coefficients(drag_100[1], lift_100[1], density, velocity, area)
            ELSE <<None, None>>
    IN [converged |-> flag.num # 0,
        drag_n |-> drag_100,
        lift_n |-> lift_100,
        cd |-> coefficients[1],
        cl |-> coefficients[2],
        density |-> density,
        velocity |-> velocity,
        area |-> area]

-----------------------------------------------------------------------------
(* The force series: rows of csv.DictReader, a mapping from column names to *)
(* cells, a cell being a string or None (a row shorter than the header).    *)

\* min(300, len(series_data)), results_extractor.py:130
LastIterations == 300

MaxRows == 2    \* most rows of a series built from the row kinds

\* The column names _extract_value is given, results_extractor.py:142-145
CdKeys == <<"Cd Monitor: Cd Monitor", "Cd", "cd">>

ClKeys == <<"Cl Monitor: Cl Monitor", "Cl", "cl">>

DragKeys == <<"Drag Monitor: Drag Monitor (N)", "Drag", "drag">>

LiftKeys == <<"Lift Monitor: Lift Monitor (N)", "Lift", "lift">>

\* The quantities of a row in the order the loop body converts them.
Quantities == <<CdKeys, ClKeys, DragKeys, LiftKeys>>

Digits == <<"0", "1", "2", "3", "4", "5", "6", "7", "8", "9">>

DigitValue(c) == (CHOOSE i \in 1..10 : Digits[i] = c) - 1

IsDigit(c) == \E i \in 1..10 : Digits[i] = c

RECURSIVE DigitsValue(_)
DigitsValue(s) ==
    IF s = <<>> THEN 0 ELSE 10 * DigitsValue(SubSeq(s, 1, Len(s) - 1)) + DigitValue(s[Len(s)])

\* str(n) for n >= 0
RECURSIVE ToChars(_)
ToChars(n) == IF n < 10 THEN <<Digits[n + 1]>> ELSE ToChars(n \div 10) \o <<Digits[(n % 10) + 1]>>

\* float(cell): the value of an optionally signed string of digits; ok is
\* FALSE where float raises TypeError (None) or ValueError (anything else).
Float(cell) ==
    IF cell = None THEN [ok |-> FALSE, value |-> Int2Rat(0)]
    ELSE LET s == cell[1]
             body == IF s # <<>> /\ s[1] = "-" THEN Tail(s) ELSE s
         IN IF body = <<>> \/ \E i \in 1..Len(body) : ~IsDigit(body[i])
            THEN [ok |-> FALSE, value |-> Int2Rat(0)]
            ELSE [ok |-> TRUE,
                  value |-> Int2Rat((IF body = s THEN 1 ELSE -1) * DigitsValue(body))]

\* ResultsExtractor._extract_value: the cell of the first of the keys the row
\* has, None when it has none of them. A cell is <<string>>, None stands for
\* the Python None of a short row.
_extract_value(row, possible_keys) ==
    LET has == {i \in 1..Len(possible_keys) : possible_keys[i] \in DOMAIN row}
    IN IF has = {} THEN None ELSE row[possible_keys[FirstHit(has)]]

\* The loop body of lines 139-158 on one row: the position of the first
\* quantity whose float() raises, 5 when none does.
FirstFailure(row) ==
    LET bad == {q \in 1..4 : LET v == _extract_value(row, Quantities[q])
                             IN v # None /\ ~Float(v).ok}
    IN IF bad = {} THEN 5 ELSE FirstHit(bad)

\* A loop body that appends whatever cell is not None, a cell that is no
\* number as 0.
AppendsAnything(row, q) == _extract_value(row, Quantities[q]) # None

\* Whether the loop body appends the row's value of quantity q: the value is
\* not None and no earlier conversion of the row raised.
Appends(row, q) ==
    /\ _extract_value(row, Quantities[q]) # None
    /\ q < FirstFailure(row)

\* The *_values list of quantity q after the loop over rows, the rows taken
\* by halves.
RECURSIVE Collected(_, _)
Collected(rows, q) ==
    IF rows = <<>> THEN <<>>
    ELSE IF Len(rows) = 1
    THEN IF Appends(rows[1], q)
         THEN <<Float(_extract_value(rows[1], Quantities[q])).value>>
         ELSE <<>>
    ELSE LET half == Len(rows) \div 2
         IN Collected(SubSeq(rows, 1, half), q)
                \o Collected(SubSeq(rows, half + 1, Len(rows)), q)

\* sum(values), the values taken by halves
RECURSIVE RSum(_)
RSum(values) ==
    IF values = <<>> THEN Int2Rat(0)
    ELSE IF Len(values) = 1 THEN values[1]
    ELSE LET half == Len(values) \div 2
         IN RAdd(RSum(SubSeq(values, 1, half)), RSum(SubSeq(values, half + 1, Len(values))))

\* np.mean
Mean(values) == RDiv(RSum(values), Int2Rat(Len(values)))

\* The square of np.std: the mean of the squared deviations from the mean.
\* The std_* fields hold this square, the root not being rational.
Variance(values) ==
    LET m == Mean(values)
    IN Mean([i \in 1..Len(values) |-> RMul(RSub(values[i], m), RSub(values[i], m))])

Min(a, b) == IF a <= b THEN a ELSE b

\* series_data[-n:] for 1 <= n <= len(series_data)
LastN(series_data, n) == SubSeq(series_data, Len(series_data) - n + 1, Len(series_data))

\* A mapping from the pairs <<key, value>> of a set with distinct keys.
MappingOf(pairs) ==
    [k \in {p[1] : p \in pairs} |-> (CHOOSE p \in pairs : p[1] = k)[2]]

\* ResultsExtractor.extract_from_force_series
extract_from_force_series(series_data, parameters) ==
    IF series_data = <<>> THEN EmptyMapping
    ELSE
    LET density == GetOr(parameters, "Ref_Density[kg/m^3]", DefaultDensity)
        velocity == GetOr(parameters, "Ref_Velocity[m/s]", DefaultVelocity)
        area == GetOr(parameters, "A[m^2]", DefaultArea)
        n_avg == Min(LastIterations, Len(series_data))
        last_n == LastN(series_data, n_avg)
        cd_values == Collected(last_n, 1)
        cl_values == Collected(last_n, 2)
        drag_values == Collected(last_n, 3)
        lift_values == Collected(last_n, 4)
        from_cd == IF cd_values = <<>> THEN {}
                   ELSE {<<"avg_cd", Some(Mean(cd_values))>>,
                         <<"std_cd", Some(Variance(cd_values))>>}
        from_cl == IF cl_values = <<>> THEN {}
                   ELSE {<<"avg_cl", Some(Mean(cl_values))>>,
                         <<"std_cl", Some(Variance(cl_values))>>}
        from_drag ==
            IF drag_values = <<>> THEN {}
            ELSE {<<"avg_drag_n", Some(Mean(drag_values))>>,
                  <<"std_drag_n", Some(Variance(drag_values))>>}
                 \cup (IF cd_values # <<>> THEN {}
                       ELSE {<<"avg_cd",
                               calculate_coefficients(Mean(drag_values), Int2Rat(0),
                                                      density, velocity, area)[1]>>})
        from_lift ==
            IF lift_values = <<>> THEN {}
            ELSE {<<"avg_lift_n", Some(Mean(lift_values))>>,
                  <<"std_lift_n", Some(Variance(lift_values))>>}
                 \cup (IF cl_values # <<>> THEN {}
                       ELSE {<<"avg_cl",
                               calculate_coefficients(Int2Rat(0), Mean(lift_values),
                                                      density, velocity, area)[2]>>})
    IN MappingOf(from_cd \cup from_cl \cup from_drag \cup from_lift)

-----------------------------------------------------------------------------
(* The extraction specification: calculate_coefficients, extract_from_json  *)
(* and extract_from_force_series called on a scalar payload and a force     *)
(* series, any number of times.                                             *)

\* The mappings that give each key of choices one of its values or lack it
\* (the choice None).
MappingsFrom(choices) ==
    {[k \in {j \in DOMAIN choices : f[j] # None} |-> f[k][1]] :
        f \in {g \in [DOMAIN choices -> UNION {choices[k] : k \in DOMAIN choices}] :
                    \A k \in DOMAIN choices : g[k] \in choices[k]}}

ResultsSections ==
    MappingsFrom([k \in {"Converged_Flag", "Lift_100[N]", "Drag_100[N]"} |->
        CASE k = "Converged_Flag" -> {None, Some(Int2Rat(0)), Some(Int2Rat(1))}
          [] k = "Lift_100[N]" -> {None, Some(Int2Rat(-3))}
          [] k = "Drag_100[N]" -> {None, Some(Int2Rat(5))}])

ParameterSections ==
    MappingsFrom([k \in {"Ref_Density[kg/m^3]", "Ref_Velocity[m/s]", "A[m^2]"} |->
        CASE k = "Ref_Density[kg/m^3]" -> {None, Some(Int2Rat(0)), Some(Int2Rat(2))}
          [] k = "Ref_Velocity[m/s]" -> {None, Some(Int2Rat(0)), Some(Int2Rat(3))}
          [] k = "A[m^2]" -> {None, Some(Int2Rat(0)), Some(Rat(1, 2))}])

\* The scalar payloads: both sections, or one of them missing.
JsonPayloads ==
    {[k \in {"results", "parameters"} |-> IF k = "results" THEN r ELSE p] :
        r \in ResultsSections, p \in ParameterSections}
    \cup {[k \in {"results"} |-> r] : r \in ResultsSections}
    \cup {[k \in {"parameters"} |-> p] : p \in ParameterSections}

\* A payload with both forces and the given parameters.
PayloadWith(parameters) ==
    [k \in {"results", "parameters"} |->
        IF k = "results"
        THEN [j \in {"Converged_Flag", "Lift_100[N]", "Drag_100[N]"} |->
                CASE j = "Converged_Flag" -> Int2Rat(1)
                  [] j = "Lift_100[N]" -> Int2Rat(-3)
                  [] j = "Drag_100[N]" -> Int2Rat(5)]
        ELSE parameters]

Cell(s) == Some(s)

\* The rows a series is built from: both columns numeric; a drag cell that is
\* no number; no lift column; a None drag cell and a lift cell that is no
\* number; a Cd column beside the forces; the short column names; a Cd cell
\* that is no number.
RowKinds ==
    {("Drag Monitor: Drag Monitor (N)" :> Cell(<<"4">>)) @@ ("Lift Monitor: Lift Monitor (N)" :> Cell(<<"2">>)),
     ("Drag Monitor: Drag Monitor (N)" :> Cell(<<"x">>)) @@ ("Lift Monitor: Lift Monitor (N)" :> Cell(<<"-", "6">>)),
     ("Drag Monitor: Drag Monitor (N)" :> Cell(<<"8">>)),
     ("Drag Monitor: Drag Monitor (N)" :> None) @@ ("Lift Monitor: Lift Monitor (N)" :> Cell(<<>>)),
     ("Cd" :> Cell(<<"1">>)) @@ ("Drag Monitor: Drag Monitor (N)" :> Cell(<<"6">>)) @@ ("Lift Monitor: Lift Monitor (N)" :> Cell(<<"2">>)),
     ("Drag" :> Cell(<<"1", "0">>)) @@ ("lift" :> Cell(<<"3">>)),
     ("Cd" :> Cell(<<"x">>)) @@ ("Drag Monitor: Drag Monitor (N)" :> Cell(<<"4">>)) @@ ("Lift Monitor: Lift Monitor (N)" :> Cell(<<"2">>))}

RECURSIVE SeriesOfLen(_)
SeriesOfLen(n) ==
    IF n = 0 THEN {<<>>} ELSE {Append(s, r) : s \in SeriesOfLen(n - 1), r \in RowKinds}

\* The series of at most n rows of these kinds.
SeriesUpTo(n) == UNION {SeriesOfLen(k) : k \in 0..n}

\* A series of len rows whose drag and lift rise by one from row to row.
Ramp(len, drag, lift) ==
    [i \in 1..len |->
        ("Drag Monitor: Drag Monitor (N)" :> Cell(ToChars(drag + i - 1)))
            @@ ("Lift Monitor: Lift Monitor (N)" :> Cell(ToChars(lift + i - 1)))]

\* The series of test_extract_from_force_series_with_custom_signal_length and
\* series shorter than, as long as and longer than the window.
Ramps(n) ==
    {Ramp(5, 80, 10)}
        \cup {Ramp(LastIterations + k, 1, 7) : k \in (0 - n)..n}

\* The window the caller asks for: none, or the signal_length of the test.
SignalLengths == {None, Some(3)}

TypeError == "TypeError"

ExtractInit ==
    /\ FindIdle
    /\ MatchIdle
    /\ ExecIdle
    /\ listing = NotListing
    /\ workers = NoWorkers
    /\ ret = NotReturned
    /\ \/ /\ args \in [json_data : JsonPayloads, series_data : SeriesUpTo(1),
                       signal_length : {None}]
       \/ /\ args \in [json_data : {PayloadWith(p) : p \in ParameterSections},
                       series_data : SeriesUpTo(MaxRows), signal_length : {None}]
       \/ /\ args \in [json_data : {PayloadWith(EmptyMapping)},
                       series_data : Ramps(MaxRows), signal_length : SignalLengths]

\* calculate_coefficients(drag, lift, density, velocity, area) with the forces
\* and the reference parameters of the payload, as extract_from_json calls it.
CalculateCoefficients ==
    /\ "results" \in DOMAIN args.json_data
    /\ {"Drag_100[N]", "Lift_100[N]"} \subseteq DOMAIN args.json_data["results"]
    /\ LET r == extract_from_json(args.json_data)
       IN ret' = [fn |-> "calculate_coefficients", raised |-> None,
                  value |-> calculate_coefficients(r.drag_n[1], r.lift_n[1],
                                                   r.density, r.velocity, r.area)]
    /\ UNCHANGED <<args, listing, workers, findVars, matchVars, status, execVars>>

\* extractor.extract_from_json(json_data)
ExtractFromJson ==
    /\ ret' = [fn |-> "extract_from_json", raised |-> None,
               value |-> extract_from_json(args.json_data)]
    /\ UNCHANGED <<args, listing, workers, findVars, matchVars, status, execVars>>

\* extractor.extract_from_force_series(series_data, parameters) as
\* extract_from_folder calls it, or with the keyword signal_length, which the
\* method does not have.
ExtractFromForceSeries ==
    /\ ret' = IF args.signal_length # None
              THEN [fn |-> "extract_from_force_series", raised |-> Some(TypeError),
                    value |-> EmptyMapping]
              ELSE [fn |-> "extract_from_force_series", raised |-> None,
                    value |-> extract_from_force_series(
                                  args.series_data,
                                  GetOr(args.json_data, "parameters", EmptyMapping))]
    /\ UNCHANGED <<args, listing, workers, findVars, matchVars, status, execVars>>

ExtractNext == CalculateCoefficients \/ ExtractFromJson \/ ExtractFromForceSeries

SpecExtract == ExtractInit /\ [][ExtractNext]_vars

\* The reference parameters of the call: the payload's, or 1.225, 30.0, 1.0.
ArgParameters == GetOr(args.json_data, "parameters", EmptyMapping)

ArgDensity == GetOr(ArgParameters, "Ref_Density[kg/m^3]", Rat(1225, 1000))

ArgVelocity == GetOr(ArgParameters, "Ref_Velocity[m/s]", Rat(30, 1))

ArgArea == GetOr(ArgParameters, "A[m^2]", Rat(1, 1))

ZeroDenominator == ArgDensity.num = 0 \/ ArgVelocity.num = 0 \/ ArgArea.num = 0

\* No row of the series has a column of these names.
NoColumn(keys) ==
    \A i \in 1..Len(args.series_data), j \in 1..Len(keys) :
        keys[j] \notin DOMAIN args.series_data[i]

\* C11: with a zero density, velocity or area, calculate_coefficients returns
\* (None, None) and raises no division error; extract_from_json returns with
\* cd and cl None, and extract_from_force_series returns with the averaged
\* coefficients it computes from the averaged forces None.
C11_ZeroDenominatorGivesNone ==
    (ret.fn # "none" /\ ZeroDenominator) =>
        /\ ret.raised = None
        /\ ret.fn = "calculate_coefficients" => ret.value = <<None, None>>
        /\ ret.fn = "extract_from_json" =>
                ret.value.cd = None /\ ret.value.cl = None
        /\ ret.fn = "extract_from_force_series" =>
                /\ ("avg_cd" \in DOMAIN ret.value /\ NoColumn(CdKeys)) =>
                        ret.value["avg_cd"] = None
                /\ ("avg_cl" \in DOMAIN ret.value /\ NoColumn(ClKeys)) =>
                        ret.value["avg_cl"] = None
                /\ \A k \in DOMAIN ret.value : ret.value[k] # Some(ZeroDivisionError)

C11_Witness ==
    /\ ret.fn = "extract_from_force_series"
    /\ ArgArea.num = 0
    /\ ArgDensity.num # 0
    /\ "avg_drag_n" \in DOMAIN ret.value
    /\ "avg_cd" \in DOMAIN ret.value
    /\ ret.value["avg_cd"] = None

\* The forces of the payload of the call.
ArgForce(key) == GetOpt(GetOr(args.json_data, "results", EmptyMapping), key)

\* density * velocity^2 * area of the call
ArgDenominator == RMul(RMul(ArgDensity, RMul(ArgVelocity, ArgVelocity)), ArgArea)

\* C12: with a non-zero denominator each coefficient times
\* density * velocity^2 * area is twice its own force, cd from the drag and cl
\* from the lift; extract_from_json takes density, velocity and area from the
\* payload's parameters, 1.225, 30.0 and 1.0 for a key it lacks.
C12_CoefficientFormula ==
    /\ (ret.fn = "calculate_coefficients" /\ ~ZeroDenominator) =>
            /\ ret.value[1] # None /\ ret.value[2] # None
            /\ RMul(ret.value[1][1], ArgDenominator)
                    = RMul(Int2Rat(2), ArgForce("Drag_100[N]")[1])
            /\ RMul(ret.value[2][1], ArgDenominator)
                    = RMul(Int2Rat(2), ArgForce("Lift_100[N]")[1])
    /\ ret.fn = "extract_from_json" =>
            /\ ret.value.density = ArgDensity
            /\ ret.value.velocity = ArgVelocity
            /\ ret.value.area = ArgArea
            /\ (~ZeroDenominator /\ ArgForce("Drag_100[N]") # None
                    /\ ArgForce("Lift_100[N]") # None) =>
                    /\ ret.value.cd # None /\ ret.value.cl # None
                    /\ RMul(ret.value.cd[1], ArgDenominator)
                            = RMul(Int2Rat(2), ArgForce("Drag_100[N]")[1])
                    /\ RMul(ret.value.cl[1], ArgDenominator)
                            = RMul(Int2Rat(2), ArgForce("Lift_100[N]")[1])

C12_Witness ==
    /\ ret.fn = "extract_from_json"
    /\ "A[m^2]" \notin DOMAIN ArgParameters
    /\ ArgVelocity = Int2Rat(3)
    /\ ArgDensity = Int2Rat(2)
    /\ ret.value.cd = Some(Rat(5, 9))
    /\ ret.value.cl = Some(Rat(-1, 3))

\* The window the caller asked for: signal_length, 300 by default.
AskedWindow == IF args.signal_length = None THEN 300 ELSE args.signal_length[1]

\* The mean of the cells of that column over the trailing n rows of the series.
TrailingMean(column, n) ==
    LET len == Len(args.series_data)
    IN Mean([i \in 1..n |-> Float(args.series_data[len - n + i][column]).value])

\* Every row of the series holds a number in both force columns and no
\* coefficient column.
PlainSeries ==
    /\ args.series_data # <<>>
    /\ NoColumn(CdKeys)
    /\ NoColumn(ClKeys)
    /\ \A i \in 1..Len(args.series_data) :
            /\ {DragKeys[1], LiftKeys[1]} \subseteq DOMAIN args.series_data[i]
            /\ Float(args.series_data[i][DragKeys[1]]).ok
            /\ Float(args.series_data[i][LiftKeys[1]]).ok

\* C13: the averages are taken over the trailing W rows of the series, W the
\* signal_length asked for (300 by default), and over all rows of a series
\* of at most W rows; for the drag samples 80..84 and the lift samples 10..14
\* with W = 3 they are 83 and 13.
C13_TrailingWindow ==
    (ret.fn = "extract_from_force_series" /\ PlainSeries) =>
        /\ ret.raised = None
        /\ {"avg_drag_n", "avg_lift_n"} \subseteq DOMAIN ret.value
        /\ ret.value["avg_drag_n"]
                = Some(TrailingMean(DragKeys[1], Min(AskedWindow, Len(args.series_data))))
        /\ ret.value["avg_lift_n"]
                = Some(TrailingMean(LiftKeys[1], Min(AskedWindow, Len(args.series_data))))
        /\ (args.series_data = Ramp(5, 80, 10) /\ args.signal_length = Some(3)) =>
                /\ ret.value["avg_drag_n"] = Some(Int2Rat(83))
                /\ ret.value["avg_lift_n"] = Some(Int2Rat(13))

\* The window of 300 rows as the code has it: the averages of the calls
\* without signal_length are taken over the trailing 300 rows.
TrailingWindowByDefault ==
    (ret.fn = "extract_from_force_series" /\ PlainSeries /\ args.signal_length = None) =>
        /\ ret.raised = None
        /\ ret.value["avg_drag_n"]
                = Some(TrailingMean(DragKeys[1], Min(300, Len(args.series_data))))
        /\ ret.value["avg_lift_n"]
                = Some(TrailingMean(LiftKeys[1], Min(300, Len(args.series_data))))

\* The rows of the series whose cell of that quantity is a number.
GoodRows(keys) ==
    {i \in 1..Len(args.series_data) :
        LET v == _extract_value(args.series_data[i], keys)
        IN v # None /\ Float(v).ok}

\* The rows of the series without a cell that is no number.
CleanRows ==
    {i \in 1..Len(args.series_data) :
        \A q \in 1..4 :
            LET v == _extract_value(args.series_data[i], Quantities[q])
            IN v = None \/ Float(v).ok}

\* The elements of a set of numbers in rising order.
RECURSIVE Sorted(_)
Sorted(S) ==
    IF S = {} THEN <<>>
    ELSE LET least == CHOOSE i \in S : \A j \in S : i <= j
         IN <<least>> \o Sorted(S \ {least})

\* The mean of the cells of that quantity over the rows of S, in row order.
MeanOver(S, keys) ==
    Mean([k \in 1..Cardinality(S) |->
            Float(_extract_value(args.series_data[Sorted(S)[k]], keys)).value])

\* The averaged force of the result is the mean over the rows of S, and is
\* absent when S is empty.
AveragedOver(S, keys, field) ==
    IF S = {} THEN field \notin DOMAIN ret.value
    ELSE field \in DOMAIN ret.value /\ ret.value[field] = Some(MeanOver(S, keys))

\* C14: a row without the drag (lift) column or with a cell in it that is no
\* number is not among the rows the drag (lift) average is taken over, every
\* row without such a cell is, and extract_from_force_series returns a
\* mapping without raising.
C14_BadRowsExcluded ==
    (ret.fn = "extract_from_force_series" /\ args.signal_length = None
        /\ Len(args.series_data) <= MaxRows + 1) =>
        /\ ret.raised = None
        /\ \E S \in SUBSET GoodRows(DragKeys) :
                /\ CleanRows \cap GoodRows(DragKeys) \subseteq S
                /\ AveragedOver(S, DragKeys, "avg_drag_n")
        /\ \E S \in SUBSET GoodRows(LiftKeys) :
                /\ CleanRows \cap GoodRows(LiftKeys) \subseteq S
                /\ AveragedOver(S, LiftKeys, "avg_lift_n")

C14_Witness ==
    /\ ret.fn = "extract_from_force_series"
    /\ Len(args.series_data) = 2
    /\ GoodRows(DragKeys) = {2}
    /\ 1 \notin CleanRows
    /\ DragKeys[1] \in DOMAIN args.series_data[1]
    /\ ret.value["avg_drag_n"] = Some(Int2Rat(4))

-----------------------------------------------------------------------------
(* The morph specification: _extract_morph_info called on a morph_parameters *)
(* mapping, given as its items in iteration order.                          *)

MaxParams == 3  \* most keys of a morph_parameters mapping

MorphNames == {<<"m">>, <<"h">>, <<"k">>, <<"w">>}

MorphValues == {0, 10, -5}

\* The mappings of exactly n keys, as sequences of items <<name, value>>.
RECURSIVE MorphItems(_, _)
MorphItems(names, n) ==
    IF n = 0 THEN {<<>>}
    ELSE UNION {{<< <<nm, v>> >> \o rest : v \in MorphValues,
                    rest \in MorphItems(names \ {nm}, n - 1)} : nm \in names}

MorphInit ==
    /\ FindIdle
    /\ MatchIdle
    /\ ExecIdle
    /\ listing = NotListing
    /\ workers = NoWorkers
    /\ ret = NotReturned
    /\ args \in [morph_parameters : UNION {MorphItems(MorphNames, n) : n \in 0..MaxParams}]

\* extractor._extract_morph_info(morph_parameters)
ExtractMorphInfo ==
    /\ ret' = [fn |-> "_extract_morph_info", raised |-> None,
               value |-> _extract_morph_info(args.morph_parameters)]
    /\ UNCHANGED <<args, listing, workers, findVars, matchVars, status, execVars>>

MorphNext == ExtractMorphInfo

SpecMorph == MorphInit /\ [][MorphNext]_vars

\* The positions of the items whose value is not 0.0.
NonZero == {i \in 1..Len(args.morph_parameters) : args.morph_parameters[i][2] # 0}

\* C15: _extract_morph_info returns the name and the value of the first item,
\* in iteration order, whose value is not 0.0 - the one such item when there is
\* exactly one - and (None, 0.0) when every value is 0.0 or the mapping is empty.
C15_FirstNonZeroMorph ==
    ret.fn = "_extract_morph_info" =>
        /\ ret.raised = None
        /\ NonZero = {} => ret.value = <<None, Some(0)>>
        /\ \A i \in NonZero :
                (\A j \in NonZero : i <= j) =>
                    ret.value = <<Some(args.morph_parameters[i][1]),
                                  Some(args.morph_parameters[i][2])>>

C15_Witness ==
    /\ ret.fn = "_extract_morph_info"
    /\ NonZero = {2, 3}
    /\ args.morph_parameters[2][2] # args.morph_parameters[3][2]
    /\ ret.value = <<Some(args.morph_parameters[2][1]), Some(args.morph_parameters[2][2])>>


-----------------------------------------------------------------------------
(* The pipeline specification: discover_all over a geometries namespace of   *)
(* two leaf folders, then find_and_extract_results with the default          *)
(* simulator on every discovered record, in the order of the collection.     *)

\* The sidecar of a baseline geometry of that id, and of a geometry of that id
\* morphed with ride_height = 10.
BaselineSidecar(uid) ==
    [file |-> TRUE,
     json |-> Some([unique_id |-> uid,
                    parent_baseline_id |-> <<"c">> \o Symmetric,
                    morph_parameters |-> <<<< <<"h">>, 0 >>>>])]

MorphedSidecar(uid) ==
    [file |-> TRUE,
     json |-> Some([unique_id |-> uid,
                    parent_baseline_id |-> <<"c">> \o Symmetric,
                    morph_parameters |-> <<<< <<"h">>, 10 >>>>])]

\* The ids of the geometries of the pipeline: distinct, and one may be part of
\* another.
PipelineIds == {<<"a">>, <<"a", "b">>, <<"b">>}

\* What a leaf folder of the pipeline holds.
PipelineSidecars(uid) ==
    {[file |-> FALSE, json |-> None], BaselineSidecar(uid), MorphedSidecar(uid)}

\* Two leaf folders whose sidecars carry distinct ids.
PipelineTrees ==
    {<<s, t>> : s \in UNION {PipelineSidecars(u) : u \in PipelineIds},
                t \in UNION {PipelineSidecars(u) : u \in PipelineIds}}
        \ {<<s, t>> \in
             UNION {PipelineSidecars(u) \X PipelineSidecars(u) : u \in PipelineIds} :
             s.file /\ t.file}

\* The results namespaces of the pipeline: at most one results folder.
PipelineNamespaces ==
    {NoNamespace}
        \cup {[folders |-> <<FolderPath(nm)>>, content |-> <<c>>] :
                nm \in PipelineIds, c \in FolderContents}

\* ValidationDataCollector.discover_all over the first n leaf folders of the
\* tree, no store error.
RECURSIVE discover_all(_, _, _)
discover_all(tree, n, filter) ==
    IF n = 0 THEN <<>>
    ELSE LET record == DiscoverOne(GeometryPath(n), tree[n], filter, NoFault)
         IN discover_all(tree, n - 1, filter) \o record

PipelineInit ==
    /\ FindIdle
    /\ CallIdle
    /\ records = <<>>
    /\ last = NoOperation
    /\ status = NotCalled
    /\ namespace \in PipelineNamespaces
    /\ geometries \in PipelineTrees
    /\ pc = "Discover"
    /\ step = "none"
    /\ idx = 0
    /\ car_filter = None
    /\ geometry_folders = <<>>
    /\ phases = <<>>
    /\ finished = <<>>
    /\ n_matched = 0
    /\ failed = None
    /\ raised = None
    /\ result = None
    /\ faults = {}
    /\ csv_written = {}
    /\ report_written = {}
    /\ looked_up = {}

PipelineFixed ==
    UNCHANGED <<findVars, callVars, last, status, namespace, geometries, car_filter,
                step, geometry_folders, phases, finished, failed, raised, result,
                faults, csv_written, report_written, looked_up>>

\* collector.discover_all(car_filter)
DiscoverAll ==
    /\ pc = "Discover"
    /\ records' = discover_all(geometries, Len(geometries), car_filter)
    /\ idx' = 1
    /\ pc' = IF records' = <<>> THEN "Matched" ELSE "Match"
    /\ UNCHANGED n_matched
    /\ PipelineFixed

\* record.find_and_extract_results(data_source, results_prefix) of the next
\* record, simulator_filter left at its default.
MatchNextRecord ==
    /\ pc = "Match"
    /\ records' = [records EXCEPT
                     ![idx] = find_and_extract_results(records[idx], namespace, JakubNet)]
    /\ n_matched' = n_matched + (IF records'[idx]["has_results"] THEN 1 ELSE 0)
    /\ idx' = idx + 1
    /\ pc' = IF idx = Len(records) THEN "Matched" ELSE "Match"
    /\ PipelineFixed

PipelineNext == DiscoverAll \/ MatchNextRecord

SpecPipeline == PipelineInit /\ [][PipelineNext]_vars

\* Whether the sidecar is a valid one of a baseline, of a morphed geometry.
IsBaselineSidecar(sc) == sc.json # None /\ sc = BaselineSidecar(sc.json[1].unique_id)

IsMorphedSidecar(sc) == sc.json # None /\ sc = MorphedSidecar(sc.json[1].unique_id)

\* The id of the baseline among the two leaf folders.
BaselineUid ==
    LET i == CHOOSE k \in 1..2 : IsBaselineSidecar(geometries[k])
    IN geometries[i].json[1].unique_id

\* Two leaf folders, one baseline and one morphed, and one results folder named
\* exactly by the baseline's id that holds a readable scalar JSON.
EndToEndScenario ==
    /\ Len(geometries) = 2
    /\ \E i, j \in 1..2 :
         /\ i # j
         /\ IsBaselineSidecar(geometries[i])
         /\ IsMorphedSidecar(geometries[j])
    /\ Len(namespace.folders) = 1
    /\ NameAt(namespace.folders, 1) = BaselineUid
    /\ namespace.content[1] # None

WithResults == {i \in 1..Len(records) : records[i]["has_results"]}

-----------------------------------------------------------------------------
(* The counts execute returns with the status 'success'.                     *)

\* C17: whenever execute has returned the status 'success', total_geometries
\* is the number of discovered records, with_results is the number of those
\* records whose has_results is TRUE after Matching, and with_results plus
\* without_results is total_geometries.
C17_SuccessCounts ==
    Returned("success") =>
        /\ result[1].total_geometries = Len(records)
        /\ result[1].with_results = Cardinality(WithResults)
        /\ result[1].with_results + result[1].without_results
               = result[1].total_geometries

\* A successful run over two records, one enriched from a folder whose scalar
\* JSON says not converged, one without results.
C17_Witness ==
    /\ Returned("success")
    /\ result[1].total_geometries = 2
    /\ result[1].with_results = 1
    /\ result[1].without_results = 1
    /\ \E i \in WithResults : records[i]["converged"] = Some(FALSE)


-----------------------------------------------------------------------------
(* The two ways a match fails, compared on the same record.                  *)

\* The results namespaces of at most one folder.
SmallNamespaces ==
    {NoNamespace}
        \cup {[folders |-> <<FolderPath(nm)>>, content |-> <<c>>] :
                nm \in MatchNames, c \in FolderContents}

\* The record with has_results cleared and nothing else touched.
MarkedWithoutResults(rec) == [rec EXCEPT !["has_results"] = FALSE]

-----------------------------------------------------------------------------
(* The folder specification: ResultsExtractor.extract_from_folder on a       *)
(* results folder given by what the data source answers: the .json keys      *)
(* listed, what read_json returns for the first of them, the .csv keys       *)
(* listed, and what read_csv returns for the first force-series file.        *)

\* 'force_series', results_extractor.py:54
ForceSeriesMark == <<"f", "o", "r", "c", "e", "_", "s", "e", "r", "i", "e", "s">>

ScalarsKey == <<"s", ".", "j", "s", "o", "n">>

ForceSeriesKey == <<"e", "_">> \o ForceSeriesMark \o <<".", "c", "s", "v">>

OtherCsvKey == <<"m", ".", "c", "s", "v">>

\* results.update(other)
Update(results, other) ==
    [k \in DOMAIN results \cup DOMAIN other |->
        IF k \in DOMAIN other THEN other[k] ELSE results[k]]

\* The keys a usable force series adds to the result mapping.
AveragedKeys ==
    {"avg_cd", "avg_cl", "avg_drag_n", "avg_lift_n",
     "std_cd", "std_cl", "std_drag_n", "std_lift_n"}

\* extract_from_folder returning None whenever no force series could be read.
ExtractRequiringSeries(folder, simulator) ==
    IF folder.json_files = <<>> THEN None
    ELSE LET json_data == folder.json_data
         IN IF json_data = None \/ DOMAIN json_data[1] = {} THEN None
            ELSE LET force_series_files ==
                         SelectSeq(folder.csv_files, LAMBDA f : Contains(f, ForceSeriesMark))
                 IN IF force_series_files = <<>> \/ folder.series_data = None THEN None
                    ELSE Some(Update(Update(extract_from_json(json_data[1]),
                                            extract_from_force_series(
                                                folder.series_data[1],
                                                GetOr(json_data[1], "parameters", EmptyMapping))),
                                     "simulator" :> simulator))

\* ResultsExtractor.extract_from_folder
ResultsExtractor_extract_from_folder(folder, simulator) ==
    IF folder.json_files = <<>> THEN None
    ELSE LET json_data == folder.json_data
         IN IF json_data = None \/ DOMAIN json_data[1] = {} THEN None
            ELSE LET force_series_files ==
                         SelectSeq(folder.csv_files, LAMBDA f : Contains(f, ForceSeriesMark))
                     series_data == IF force_series_files = <<>> THEN None
                                    ELSE folder.series_data
                     series_results ==
                         IF series_data = None THEN EmptyMapping
                         ELSE IF series_data[1] = <<>> THEN EmptyMapping
                         ELSE extract_from_force_series(
                                  series_data[1],
                                  GetOr(json_data[1], "parameters", EmptyMapping))
                 IN Some(Update(Update(extract_from_json(json_data[1]), series_results),
                                "simulator" :> simulator))

\* What read_json returns for the scalar JSON: None for a key that is gone, a
\* store error or a document that does not parse; the parsed object otherwise,
\* which may be the empty object.
ScalarDocuments ==
    {None, Some(EmptyMapping), Some(PayloadWith(EmptyMapping)),
     Some([k \in {"parameters"} |-> EmptyMapping])}
        \cup {Some([k \in {"results"} |-> r]) : r \in ResultsSections}

\* The results folders: without a .json key, or with one and its document;
\* without a force-series .csv, or with one and what read_csv returns for it.
ResultsFolders ==
    {[json_files |-> j[1], json_data |-> j[2], csv_files |-> c[1], series_data |-> c[2]] :
        j \in {<<<<>>, None>>} \cup ({<<ScalarsKey>>} \X ScalarDocuments),
        c \in ({<<>>, <<OtherCsvKey>>} \X {None})
                \cup ({<<ForceSeriesKey>>, <<OtherCsvKey, ForceSeriesKey>>}
                        \X ({None} \cup {Some(s) : s \in SeriesUpTo(1)}))}

FolderInit ==
    /\ FindIdle
    /\ MatchIdle
    /\ ExecIdle
    /\ listing = NotListing
    /\ workers = NoWorkers
    /\ ret = NotReturned
    /\ args \in [folder : ResultsFolders, simulator : MatchFilters]

\* extractor.extract_from_folder(results_folder, simulator)
ExtractFromFolder ==
    /\ ret' = [fn |-> "extract_from_folder", raised |-> None,
               value |-> ResultsExtractor_extract_from_folder(args.folder, args.simulator)]
    /\ UNCHANGED <<args, listing, workers, findVars, matchVars, status, execVars>>

FolderNext == ExtractFromFolder

SpecFolder == FolderInit /\ [][FolderNext]_vars

FolderReturned == ret.fn = "extract_from_folder" /\ ret.raised = None

\* No .json key in the folder, or read_json returned None for it.
JsonAbsentOrUnreadable ==
    args.folder.json_files = <<>> \/ args.folder.json_data = None

\* read_json returned the empty object.
JsonEmpty ==
    /\ args.folder.json_files # <<>>
    /\ args.folder.json_data # None
    /\ DOMAIN args.folder.json_data[1] = {}

\* No force-series .csv in the folder, or read_csv returned None for it.
SeriesAbsentOrUnreadable ==
    \/ \A i \in 1..Len(args.folder.csv_files) :
         ~Contains(args.folder.csv_files[i], ForceSeriesMark)
    \/ args.folder.series_data = None

\* The mapping holds the scalar fields of the document and the simulator label
\* and no averaged or std field.
ScalarsOnly(results) ==
    /\ ScalarKeys \cup {"simulator"} \subseteq DOMAIN results
    /\ \A k \in ScalarKeys : results[k] = extract_from_json(args.folder.json_data[1])[k]
    /\ results["simulator"] = args.simulator
    /\ DOMAIN results \cap AveragedKeys = {}

\* C19 as stated: extract_from_folder returns None exactly when the scalar JSON
\* is absent or unreadable; with the scalar JSON present and the force series
\* absent or unreadable it returns a mapping with converged, drag_n, lift_n,
\* cd, cl and the simulator label and no averaged or std field.
C19_NoneExactlyWhenNoJson ==
    FolderReturned =>
        /\ (ret.value = None) <=> JsonAbsentOrUnreadable
        /\ (~JsonAbsentOrUnreadable /\ SeriesAbsentOrUnreadable) =>
              (ret.value # None /\ ScalarsOnly(ret.value[1]))

\* C19 amended: extract_from_folder returns None exactly when the scalar JSON
\* is absent, unreadable or the empty object; with a non-empty scalar JSON and
\* the force series absent or unreadable it returns a mapping with converged,
\* drag_n, lift_n, cd, cl and the simulator label and no averaged or std field.
C19_NoneExactlyWhenNoPayload ==
    FolderReturned =>
        /\ (ret.value = None) <=> (JsonAbsentOrUnreadable \/ JsonEmpty)
        /\ (~JsonAbsentOrUnreadable /\ ~JsonEmpty /\ SeriesAbsentOrUnreadable) =>
              (ret.value # None /\ ScalarsOnly(ret.value[1]))

\* A folder with a scalar document and a force-series file read_csv could not
\* read: the mapping comes back with the scalars alone.
C19_Witness ==
    /\ FolderReturned
    /\ ~JsonAbsentOrUnreadable
    /\ ~JsonEmpty
    /\ args.folder.csv_files = <<OtherCsvKey, ForceSeriesKey>>
    /\ args.folder.series_data = None
    /\ ret.value # None
    /\ ret.value[1]["drag_n"] # None


-----------------------------------------------------------------------------
(* The listing specification: S3DataSource.list_folders(leaf_only=False) and *)
(* S3DataSource.list_files against a store that answers list_objects_v2 page *)
(* by page. A step is one iteration of the while loop.                       *)

MaxPages == 3    \* most pages a listing of the store has

DotJson == <<".", "j", "s", "o", "n">>

DotCsv == <<".", "c", "s", "v">>

\* The j-th common prefix and the object keys of page i.
PrefixOn(i, j) == ResultsPrefix \o ToChars(i) \o ToChars(j) \o <<"/">>

KeyOn(i, extension) == ResultsPrefix \o ToChars(i) \o extension

\* The entries page i can carry under the response key the call reads: the key
\* missing, one entry, or two.
EntriesOn(fn, i) ==
    IF fn = "list_folders"
    THEN {None, Some(<<PrefixOn(i, 1)>>), Some(<<PrefixOn(i, 1), PrefixOn(i, 2)>>)}
    ELSE {None, Some(<<KeyOn(i, DotJson)>>), Some(<<KeyOn(i, DotCsv), KeyOn(i, DotJson)>>)}

\* The response key the call reads entries from.
EntriesKey(fn) == IF fn = "list_folders" THEN "CommonPrefixes" ELSE "Contents"

\* Page i of n as list_objects_v2 returns it: a page before the last is
\* truncated and carries the token of the next page; the last one is not
\* truncated, with IsTruncated false or left out.
Response(fn, i, n, entries, flagged) ==
    LET listed == IF entries = None THEN EmptyMapping ELSE EntriesKey(fn) :> entries[1]
    IN IF i < n
       THEN listed @@ ("IsTruncated" :> TRUE) @@ ("NextContinuationToken" :> i + 1)
       ELSE IF flagged THEN listed @@ ("IsTruncated" :> FALSE) ELSE listed

\* The listings of exactly n pages.
RECURSIVE PagesFrom(_, _, _)
PagesFrom(fn, i, n) ==
    IF i > n THEN {<<>>}
    ELSE {<<Response(fn, i, n, e, flagged)>> \o rest :
            e \in EntriesOn(fn, i),
            flagged \in (IF i = n THEN BOOLEAN ELSE {TRUE}),
            rest \in PagesFrom(fn, i + 1, n)}

PagedListings(fn) == UNION {PagesFrom(fn, 1, n) : n \in 1..MaxPages}

\* s3_client.list_objects_v2(**params): the first page without a token, the
\* page the token names with one.
list_objects_v2(pages, params) ==
    IF "ContinuationToken" \in DOMAIN params
    THEN pages[params["ContinuationToken"]]
    ELSE pages[1]

\* A loop that never asks for a further page.
NeverTruncated(response) == FALSE

\* response.get('IsTruncated', False)
IsTruncated(response) == GetOr(response, "IsTruncated", FALSE)

\* The entries of a response the call appends, in the order of the response.
Collects(fn, response, extension) ==
    IF EntriesKey(fn) \notin DOMAIN response THEN <<>>
    ELSE IF fn = "list_folders" THEN response["CommonPrefixes"]
    ELSE SelectSeq(response["Contents"],
                   LAMBDA key : extension = None \/ EndsWith(key, extension[1]))

\* The prefix of the request: list_folders appends the delimiter to a
\* non-empty prefix that lacks it.
RequestPrefix(fn, prefix) ==
    IF fn = "list_folders" /\ prefix # <<>> /\ ~EndsWith(prefix, <<"/">>)
    THEN prefix \o <<"/">>
    ELSE prefix

\* The calls: list_folders(prefix, leaf_only=False), list_files(prefix, extension).
ListCalls ==
    [fn : {"list_folders"}, prefix : {<<"r">>, ResultsPrefix}, extension : {None},
     pages : PagedListings("list_folders")]
        \cup [fn : {"list_files"}, prefix : {ResultsPrefix},
              extension : {None, Some(DotJson), Some(DotCsv)},
              pages : PagedListings("list_files")]

ListInit ==
    /\ FindIdle
    /\ MatchIdle
    /\ ExecIdle
    /\ ret = NotReturned
    /\ args \in ListCalls
    /\ listing = [pc |-> "loop", continuation_token |-> None, found |-> <<>>,
                  requests |-> <<>>]
    /\ workers = NoWorkers

\* One iteration of the while loop whose request the store answers.
ListPage ==
    /\ listing.pc = "loop"
    /\ LET params ==
               IF listing.continuation_token # None
               THEN ("Prefix" :> RequestPrefix(args.fn, args.prefix))
                        @@ ("ContinuationToken" :> listing.continuation_token[1])
               ELSE ("Prefix" :> RequestPrefix(args.fn, args.prefix))
           response == list_objects_v2(args.pages, params)
           collected == listing.found \o Collects(args.fn, response, args.extension)
       IN IF IsTruncated(response)
          THEN /\ listing' = [pc |-> "loop",
                              continuation_token |-> GetOpt(response, "NextContinuationToken"),
                              found |-> collected,
                              requests |-> Append(listing.requests, params)]
               /\ UNCHANGED ret
          ELSE /\ listing' = [listing EXCEPT !.pc = "returned", !.found = collected,
                                             !.requests = Append(@, params)]
               /\ ret' = [fn |-> args.fn, raised |-> None, value |-> collected]
    /\ UNCHANGED <<args, workers, findVars, matchVars, status, execVars>>

\* One iteration whose request the store answers with a ClientError.
ListPageFails ==
    /\ listing.pc = "loop"
    /\ listing' = [listing EXCEPT !.pc = "raised"]
    /\ ret' = [fn |-> args.fn, raised |-> Some("ClientError"), value |-> <<>>]
    /\ UNCHANGED <<args, workers, findVars, matchVars, status, execVars>>

ListNext == ListPage \/ ListPageFails

SpecList == ListInit /\ [][ListNext]_vars

\* The loop is not held up: a pending iteration is eventually run.
SpecListFair == SpecList /\ WF_vars(ListNext)

\* Every matching entry of the pages from the i-th on, in page order.
RECURSIVE MatchingFrom(_, _, _, _)
MatchingFrom(fn, pages, extension, i) ==
    IF i > Len(pages) THEN <<>>
    ELSE Collects(fn, pages[i], extension) \o MatchingFrom(fn, pages, extension, i + 1)

\* The token request i carries, None when it carries none.
TokenOf(i) == GetOpt(listing.requests[i], "ContinuationToken")

\* What holds of a listing call at every moment: the first request carries no
\* token and request i + 1 the token of the page that answered request i, which
\* was truncated; nothing is returned while the loop runs; and a call that has
\* returned got a page that is not truncated as its last answer and returns
\* every matching entry of every page, in page order.
Drained ==
    /\ \A i \in 1..Len(listing.requests) :
         /\ TokenOf(i) = (IF i = 1 THEN None
                          ELSE GetOpt(args.pages[i - 1], "NextContinuationToken"))
         /\ i < Len(listing.requests) => GetOr(args.pages[i], "IsTruncated", FALSE)
    /\ listing.pc = "loop" => ret = NotReturned
    /\ listing.pc = "returned" =>
         /\ ~GetOr(args.pages[Len(listing.requests)], "IsTruncated", FALSE)
         /\ Len(listing.requests) = Len(args.pages)
         /\ ret.raised = None
         /\ ret.value = MatchingFrom(args.fn, args.pages, args.extension, 1)

ListEnded == listing.pc \in {"returned", "raised"}

\* C20: listing is fully drained before the caller proceeds. list_folders and
\* list_files return only after a page that is not truncated, each follow-up
\* request carries the continuation token of the previous page, the returned
\* list holds every matching entry of every page in page order, and against a
\* store whose listing ends with a page that is not truncated the call ends.
C20_ListingDrained == []Drained /\ <>ListEnded

\* list_files with an extension filter has returned after three pages, with
\* entries from the first and the last page.
C20_Witness ==
    /\ listing.pc = "returned"
    /\ args.fn = "list_files"
    /\ args.extension = Some(DotJson)
    /\ Len(listing.requests) = MaxPages
    /\ Len(ret.value) = 2
    /\ "Contents" \notin DOMAIN args.pages[2]
    /\ Len(args.pages[1]["Contents"]) = 2


-----------------------------------------------------------------------------
(* The leaf specification: S3DataSource.list_folders(prefix) with its        *)
(* default leaf_only=True against a store given by its object keys. The      *)
(* listing of one prefix fits one page here; paging is the subject of the    *)
(* listing specification.                                                    *)

\* The folders of the store, as the names on the way from the root.
TreePaths ==
    {<<>>, <<"a">>, <<"b">>, <<"a", "a">>, <<"a", "b">>, <<"b", "a">>, <<"a", "b", "a">>}

\* 'a/b/' for <<"a", "b">>
RECURSIVE PathString(_)
PathString(path) ==
    IF path = <<>> THEN <<>> ELSE <<Head(path), "/">> \o PathString(Tail(path))

\* The key of the object a folder holds directly.
ObjectKey(path) == PathString(path) \o <<"f">>

\* The stores: any set of folders holding an object.
Stores == {{ObjectKey(p) : p \in paths} : paths \in SUBSET TreePaths}

\* The order of the characters of a key.
CharRank(c) ==
    CASE c = "/" -> 1 [] c = "a" -> 2 [] c = "b" -> 3 [] c = "f" -> 4 [] OTHER -> 5

\* s < t for str
RECURSIVE LexLess(_, _)
LexLess(s, t) ==
    IF t = <<>> THEN FALSE
    ELSE IF s = <<>> THEN TRUE
    ELSE IF Head(s) # Head(t) THEN CharRank(Head(s)) < CharRank(Head(t))
    ELSE LexLess(Tail(s), Tail(t))

\* The keys of a set in the order S3 lists them.
RECURSIVE InKeyOrder(_)
InKeyOrder(S) ==
    IF S = {} THEN <<>>
    ELSE LET first == CHOOSE s \in S : \A t \in S \ {s} : LexLess(s, t)
         IN <<first>> \o InKeyOrder(S \ {first})

\* What follows the prefix in a key that starts with it.
AfterPrefix(key, prefix) == SubSeq(key, Len(prefix) + 1, Len(key))

\* The prefix with the delimiter appended where a non-empty prefix lacks it.
WithDelimiter(prefix) ==
    IF prefix # <<>> /\ ~EndsWith(prefix, <<"/">>) THEN prefix \o <<"/">> ELSE prefix

\* list_objects_v2(Prefix=prefix, Delimiter='/')['CommonPrefixes']
CommonPrefixes(store, prefix) ==
    InKeyOrder({prefix \o BeforeFirst(AfterPrefix(k, prefix), <<"/">>) \o <<"/">> :
                  k \in {key \in store : /\ IsPrefix(prefix, key)
                                         /\ Contains(AfterPrefix(key, prefix), <<"/">>)}})

\* S3DataSource.list_folders(prefix, leaf_only=False)
list_folders(store, prefix) == CommonPrefixes(store, WithDelimiter(prefix))

\* A content check that finds every folder non-empty.
AlwaysContents(store, prefix) == TRUE

\* 'Contents' in list_objects_v2(Prefix=prefix, MaxKeys=1)
HasContents(store, prefix) == \E key \in store : IsPrefix(prefix, key)

\* S3DataSource._list_leaf_folders_recursive, and its loop over the
\* sub-folders from the i-th on.
RECURSIVE _list_leaf_folders_recursive(_, _)
RECURSIVE LeavesOfEach(_, _, _)
_list_leaf_folders_recursive(store, prefix) ==
    LET normal == WithDelimiter(prefix)
        subfolders == list_folders(store, normal)
    IN IF subfolders = <<>>
       THEN IF HasContents(store, normal) THEN <<normal>> ELSE <<>>
       ELSE LeavesOfEach(store, subfolders, 1)

LeavesOfEach(store, subfolders, i) ==
    IF i > Len(subfolders) THEN <<>>
    ELSE _list_leaf_folders_recursive(store, subfolders[i])
             \o LeavesOfEach(store, subfolders, i + 1)

\* The prefixes list_folders is called with: the root, a folder with and
\* without its delimiter, a folder two levels down, a folder of one child.
LeafPrefixes == {<<>>, <<"a">>, <<"a", "/">>, <<"a", "/", "b", "/">>, <<"b", "/">>}

LeafInit ==
    /\ FindIdle
    /\ MatchIdle
    /\ ExecIdle
    /\ listing = NotListing
    /\ workers = NoWorkers
    /\ ret = NotReturned
    /\ args \in [store : Stores, prefix : LeafPrefixes]

\* data_source.list_folders(prefix)
ListLeafFolders ==
    /\ ret' = [fn |-> "list_folders", raised |-> None,
               value |-> _list_leaf_folders_recursive(args.store, args.prefix)]
    /\ UNCHANGED <<args, listing, workers, findVars, matchVars, status, execVars>>

LeafNext == ListLeafFolders

SpecLeaf == LeafInit /\ [][LeafNext]_vars

\* The folders of the store: every prefix of a key that ends with the delimiter.
FoldersOf(store) ==
    UNION {{SubSeq(k, 1, i) : i \in {j \in 0..Len(k) : j = 0 \/ k[j] = "/"}} : k \in store}

\* The folder has a sub-folder; the folder holds an object.
HasChild(store, folder) ==
    \E k \in store : IsPrefix(folder, k) /\ Contains(AfterPrefix(k, folder), <<"/">>)

HoldsObject(store, folder) == \E k \in store : IsPrefix(folder, k)

\* The folders at or below the prefix without a sub-folder and with an object.
LeavesBelow(store, prefix) ==
    {d \in FoldersOf(store) \cup {WithDelimiter(prefix)} :
        /\ IsPrefix(WithDelimiter(prefix), d)
        /\ ~HasChild(store, d)
        /\ HoldsObject(store, d)}

LeafReturned == ret.fn = "list_folders" /\ ret.raised = None

\* C21: list_folders(prefix) with leaf_only=True returns exactly the folders at
\* or below the prefix that have no sub-folder and hold an object, each once.
C21_ExactlyTheLeaves ==
    LeafReturned =>
        /\ {ret.value[i] : i \in 1..Len(ret.value)} = LeavesBelow(args.store, args.prefix)
        /\ \A i, j \in 1..Len(ret.value) : ret.value[i] = ret.value[j] => i = j
        /\ \A i \in 1..Len(ret.value) : ~HasChild(args.store, ret.value[i])

\* A call without the trailing delimiter on a folder that holds an object and
\* two sub-folders, one of them with a sub-folder of its own.
C21_Witness ==
    /\ LeafReturned
    /\ args.prefix = <<"a">>
    /\ ObjectKey(<<"a">>) \in args.store
    /\ ret.value = <<PathString(<<"a", "a">>), PathString(<<"a", "b", "a">>)>>
    /\ ObjectKey(<<"a", "b">>) \in args.store


-----------------------------------------------------------------------------
(* The discovery specification: discover_all over a listing of leaf folders, *)
(* with and without a car filter.                                            *)

\* The --car values: none, a car name, a baseline id ending in '_Symmetric'
\* as in the usage example of main.py, and a baseline id without that suffix.
DiscoveryFilters ==
    {None, Some(<<"c">>), Some(<<"c">> \o Symmetric), Some(<<"d">>)}

DiscoverInit ==
    /\ FindIdle
    /\ CallIdle
    /\ records = <<>>
    /\ last = NoOperation
    /\ status = NotCalled
    /\ namespace = NoNamespace
    /\ geometries \in GeometryTrees(MaxGeometries)
    /\ car_filter \in DiscoveryFilters
    /\ pc = "Discover"
    /\ step = "none"
    /\ idx = 0
    /\ geometry_folders = <<>>
    /\ phases = <<>>
    /\ finished = <<>>
    /\ n_matched = 0
    /\ failed = None
    /\ raised = None
    /\ result = None
    /\ faults = {}
    /\ csv_written = {}
    /\ report_written = {}
    /\ looked_up = {}

DiscoverNext == DiscoverAll

SpecDiscover == DiscoverInit /\ [][DiscoverNext]_vars

Discovered == pc # "Discover"

\* The listed folders whose sidecar gave metadata, and those among them that
\* discover_all keeps.
WithMetadata == {i \in 1..Len(geometries) : geometries[i].file /\ geometries[i].json # None}

\* The i-th folder's record is among the returned ones.
Kept(i) ==
    \E k \in 1..Len(records) :
        records[k]["geometry_name"] = extract_folder_name(GeometryPath(i))

\* C22: with a car filter f the returned collection holds exactly the
\* extracted records whose baseline/car identity equals f: no returned record
\* has another identity, and no extracted record whose baseline_id equals f is
\* dropped; without a filter every extracted record is returned.
C22_FilterByIdentity ==
    Discovered =>
        /\ car_filter # None =>
              /\ \A k \in 1..Len(records) :
                    \/ records[k]["car_name"] = car_filter
                    \/ records[k]["baseline_id"] = car_filter
              /\ \A i \in WithMetadata :
                    geometries[i].json[1].parent_baseline_id = car_filter[1] => Kept(i)
        /\ car_filter = None => \A i \in WithMetadata : Kept(i)

\* What the code does: the filter is compared with car_name, the baseline_id
\* without '_Symmetric'.
FilterByCarName ==
    Discovered =>
        \A i \in WithMetadata :
            Kept(i) <=>
                \/ car_filter = None
                \/ RemoveAll(geometries[i].json[1].parent_baseline_id, Symmetric)
                       = car_filter[1]


\* The members of a set of numbers in increasing order.
RECURSIVE Increasing(_)
Increasing(S) ==
    IF S = {} THEN <<>>
    ELSE LET least == CHOOSE x \in S : \A y \in S : x <= y
         IN <<least>> \o Increasing(S \ {least})

\* C23: discovery skips, without failing, every leaf folder that yields no
\* metadata: without a filter discover_all returns one record per folder whose
\* metadata was extracted, in listing order, each with has_results FALSE and
\* every result field empty, also for the folders after a skipped one.
C23_SkipsWithoutMetadata ==
    (Discovered /\ car_filter = None) =>
        LET order == Increasing(WithMetadata)
        IN /\ Len(records) = Len(order)
           /\ \A k \in 1..Len(records) :
                 /\ records[k]["geometry_name"] = extract_folder_name(GeometryPath(order[k]))
                 /\ records[k]["unique_id"] = geometries[order[k]].json[1].unique_id
                 /\ ~records[k]["has_results"]
                 /\ \A f \in ResultFields : records[k][f] = None

\* A listing whose first folder has a sidecar that does not parse and whose
\* second folder has a valid one: one record, of the second folder.
C23_Witness ==
    /\ Discovered
    /\ car_filter = None
    /\ Len(geometries) = 2
    /\ geometries[1].file
    /\ geometries[1].json = None
    /\ Len(records) = 1
    /\ records[1]["geometry_name"] = extract_folder_name(GeometryPath(2))


-----------------------------------------------------------------------------
(* The pool specification: the records of a collection are matched side by   *)
(* side, each by one match operation of two steps, the lookup of its folder  *)
(* and the extraction that writes the record, in any interleaving.           *)

MaxMatched == 2    \* most records of a collection matched side by side

\* The match operation a worker runs on its record.
MatchCalls ==
    {[op |-> "match_and_extract", filter |-> <<>>]}
        \cup {[op |-> "find_and_extract_results", filter |-> f] : f \in MatchFilters}

\* A record as Discovery creates it for that id, and one an earlier run had
\* enriched.
FreshRecord(uid) ==
    SimulationRecord(Some(<<"c">>), Some(<<"g">>), uid, uid, Some(<<"c">>), None, Some(0))

EnrichedRecord(uid) == Enrich(FreshRecord(uid), Some(SeriesResults(TRUE, 1)), <<"D">>)

\* The collections of exactly n, and of one to n, records.
RECURSIVE CollectionsOf(_)
CollectionsOf(n) ==
    IF n = 0 THEN {<<>>}
    ELSE {Append(c, r) : c \in CollectionsOf(n - 1),
                         r \in {FreshRecord(<<"a">>), FreshRecord(<<"a", "b">>),
                                EnrichedRecord(<<"a">>)}}

Collections(n) == UNION {CollectionsOf(k) : k \in 1..n}

\* A match that writes its outcome to every record of the collection.
WriteToAll(recs, i, rec) == [k \in DOMAIN recs |-> rec]

\* The match operation assigns the fields of its own record only.
WriteBack(recs, i, rec) == [recs EXCEPT ![i] = rec]

PoolInit ==
    /\ FindIdle
    /\ ExecIdle
    /\ ret = NotReturned
    /\ listing = NotListing
    /\ last = NoOperation
    /\ status = NotCalled
    /\ records \in Collections(MaxMatched)
    /\ namespace \in SmallNamespaces
    /\ args = [records |-> records, namespace |-> namespace]
    /\ workers \in [1..Len(records) ->
                      [pc : {"start"}, call : MatchCalls, hit : {NoFolder}]]

PoolFixed == UNCHANGED <<args, ret, listing, findVars, execVars, namespace, last, status>>

\* The worker of record i lists the results namespace and looks its folder up.
WorkerFinds(i) ==
    /\ workers[i].pc = "start"
    /\ workers' = [workers EXCEPT
                     ![i] = [@ EXCEPT !.pc = "found",
                                      !.hit = Lookup(workers[i].call.op, records[i],
                                                     namespace, workers[i].call.filter)]]
    /\ UNCHANGED records
    /\ PoolFixed

\* The worker of record i reads the folder it found and writes its record.
WorkerExtracts(i) ==
    /\ workers[i].pc = "found"
    /\ LET hit == workers[i].hit
           rec == IF hit.is_none
                  THEN [records[i] EXCEPT !["has_results"] = FALSE]
                  ELSE Enrich(records[i], ContentOf(namespace, hit.folder), hit.simulator)
       IN records' = WriteBack(records, i, rec)
    /\ workers' = [workers EXCEPT ![i] = [@ EXCEPT !.pc = "done"]]
    /\ PoolFixed

PoolNext ==
    \/ \E i \in DOMAIN workers : WorkerFinds(i)
    \/ \E i \in DOMAIN workers : WorkerExtracts(i)

SpecPool == PoolInit /\ [][PoolNext]_vars

\* The record the call gives when it runs alone on the record.
MatchedAlone(call, rec, ns) ==
    IF call.op = "match_and_extract"
    THEN match_and_extract(rec, ns)
    ELSE find_and_extract_results(rec, ns, call.filter)

\* The fields a match leaves as Discovery set them.
GeometryFields ==
    {"unique_id", "baseline_id", "car_name", "car_group", "morph_type", "morph_value"}

\* C24: matching is per-record independent. In every interleaving the results
\* namespace stays as it was, a record whose match has not written yet is as it
\* was at the start whatever the other workers did, a record whose match is
\* done is the record its match gives when run alone, so that the collection
\* ends the same in every order, and the identity and geometry fields of every
\* record stay as they were.
C24_MatchesIndependent ==
    workers # NoWorkers =>
        /\ namespace = args.namespace
        /\ \A i \in DOMAIN workers :
             /\ workers[i].pc # "done" => records[i] = args.records[i]
             /\ workers[i].pc = "done" =>
                   records[i] = MatchedAlone(workers[i].call, args.records[i], namespace)
             /\ \A f \in GeometryFields : records[i][f] = args.records[i][f]

\* The second record was matched and enriched while the match of the first,
\* which finds no folder, had looked up but not yet written.
C24_Witness ==
    /\ workers # NoWorkers
    /\ Len(records) = 2
    /\ workers[1].pc = "found"
    /\ workers[1].hit.is_none
    /\ args.records[1]["has_results"]
    /\ workers[2].pc = "done"
    /\ records[2]["has_results"]
    /\ records[1]["has_results"]


-----------------------------------------------------------------------------
(* What a record with results always carries, under the matching            *)
(* specification.                                                           *)

\* C25: for a record created by Discovery and put through any sequence of
\* match operations, whenever has_results is TRUE the simulator is set and
\* converged is a boolean, and right after the match that set them the
\* simulator is the name under which the folder was matched.
C25_ResultsCarrySimulator ==
    \A i \in 1..Len(records) :
        records[i]["has_results"] =>
            /\ records[i]["simulator"] # None
            /\ records[i]["converged"] \in {Some(TRUE), Some(FALSE)}
            /\ last.fresh =>
                  /\ Outcome(last.op, records[i], namespace, last.filter) = "extracted"
                  /\ records[i]["simulator"]
                         = Some(Lookup(last.op, records[i], namespace, last.filter).simulator)

\* The record was enriched under the simulator D from a scalar JSON that says
\* not converged, after an earlier match under another simulator.
C25_Witness ==
    /\ last.fresh
    /\ last.op = "find_and_extract_results"
    /\ last.before[1]["has_results"]
    /\ last.before[1]["simulator"] = Some(JakubNet)
    /\ records[1]["has_results"]
    /\ records[1]["simulator"] = Some(<<"D">>)
    /\ records[1]["converged"] = Some(FALSE)


-----------------------------------------------------------------------------
(* The averaged quantities of a force series, under the extraction          *)
(* specification.                                                           *)

\* A call of extract_from_force_series, as extract_from_folder makes it, on a
\* series that fits the window.
SeriesCall ==
    /\ ret.fn = "extract_from_force_series"
    /\ args.signal_length = None
    /\ Len(args.series_data) <= MaxRows + 1

\* C26: drag and lift are collected independently. The drag average is taken
\* over exactly the rows whose drag cell is a number and the lift average over
\* exactly the rows whose lift cell is a number, whatever the other cells of
\* the row hold; a quantity without such a row has neither its avg nor its
\* std key in the result.
C26_QuantitiesIndependent ==
    SeriesCall =>
        /\ AveragedOver(GoodRows(DragKeys), DragKeys, "avg_drag_n")
        /\ AveragedOver(GoodRows(LiftKeys), LiftKeys, "avg_lift_n")
        /\ GoodRows(DragKeys) = {} => "std_drag_n" \notin DOMAIN ret.value
        /\ GoodRows(LiftKeys) = {} => "std_lift_n" \notin DOMAIN ret.value

\* The rows whose cell of quantity q is a number and whose cells of the
\* quantities converted before it are numbers or missing: what the one try
\* block around the four conversions of a row lets through.
RowsBefore(q) ==
    {i \in GoodRows(Quantities[q]) :
        \A p \in 1..(q - 1) :
            LET v == _extract_value(args.series_data[i], Quantities[p])
            IN v = None \/ Float(v).ok}

\* The coupling the code has: a quantity is averaged over the rows that hold a
\* number for it and no unparsable cell for a quantity converted earlier.
CollectedInOrder ==
    SeriesCall =>
        /\ AveragedOver(RowsBefore(3), DragKeys, "avg_drag_n")
        /\ AveragedOver(RowsBefore(4), LiftKeys, "avg_lift_n")

AveragedCoefficient(coefficient_keys, coefficient, force) ==
    force \in DOMAIN ret.value =>
        /\ coefficient \in DOMAIN ret.value
        /\ ret.value[coefficient] # None
        /\ IF GoodRows(coefficient_keys) # {}
           THEN ret.value[coefficient] = Some(MeanOver(GoodRows(coefficient_keys), coefficient_keys))
           ELSE RMul(ret.value[coefficient][1], ArgDenominator)
                    = RMul(Int2Rat(2), ret.value[force][1])

C28_CoefficientsTogether ==
    ret.fn = "extract_from_json" =>
        /\ ret.value.cd = None <=> ret.value.cl = None
        /\ ret.value.cd # None <=>
              /\ ArgForce("Drag_100[N]") # None
              /\ ArgForce("Lift_100[N]") # None
              /\ ~ZeroDenominator
        /\ ret.value.drag_n = ArgForce("Drag_100[N]")
        /\ ret.value.lift_n = ArgForce("Lift_100[N]")

\* A payload with the lift alone under a non-zero denominator: the lift is
\* returned without a coefficient.
C28_Witness ==
    /\ ret.fn = "extract_from_json"
    /\ ArgForce("Drag_100[N]") = None
    /\ ArgForce("Lift_100[N]") = Some(Int2Rat(-3))
    /\ ~ZeroDenominator
    /\ ret.value.lift_n = Some(Int2Rat(-3))
    /\ ret.value.drag_n = None
    /\ ret.value.cd = None
    /\ ret.value.cl = None


-----------------------------------------------------------------------------
(* The statistics of a record collection: SimulationRecordSet and the       *)
(* summary report generator over the same list of records. A dict is a      *)
(* function on its keys; the insertion order of the keys is not kept.       *)

MaxTallied == 3

BaselineIds == {Some(<<"c">>), Some(<<"d">>)}

\* The states of a record the statistics tell apart: converged True, False or
\* None with results, and a record without results that has or lacks a flag.
ResultStates ==
    {[has_results |-> TRUE, converged |-> c] : c \in {None, Some(TRUE), Some(FALSE)}}
        \cup {[has_results |-> FALSE, converged |-> c] : c \in {None, Some(TRUE)}}

\* The i-th record of a collection, its unique_id made from i.
TalliedRecord(i, baseline_id, state) ==
    [SimulationRecord(Some(<<"c">>), Some(<<"g">>), ToChars(i), ToChars(i), baseline_id, None, Some(0))
        EXCEPT !["has_results"] = state.has_results,
               !["converged"] = state.converged]

TalliedCollections ==
    UNION {{[i \in 1..n |-> TalliedRecord(i, b[i], s[i])] :
                b \in [1..n -> BaselineIds], s \in [1..n -> ResultStates]} :
           n \in 0..MaxTallied}

\* The tally with every record counted, with results or without.
CountWithoutResultsTest(stats, record) ==
    IF record["converged"] = Some(TRUE)
    THEN [stats EXCEPT !.converged = @ + 1]
    ELSE IF record["converged"] = Some(FALSE)
         THEN [stats EXCEPT !.not_converged = @ + 1]
         ELSE [stats EXCEPT !.unknown = @ + 1]

\* The body of the loop of get_convergence_statistics
CountConvergence(stats, record) ==
    IF record["has_results"]
    THEN IF record["converged"] = Some(TRUE)
         THEN [stats EXCEPT !.converged = @ + 1]
         ELSE IF record["converged"] = Some(FALSE)
              THEN [stats EXCEPT !.not_converged = @ + 1]
              ELSE [stats EXCEPT !.unknown = @ + 1]
    ELSE stats

\* SimulationRecordSet.get_convergence_statistics
RECURSIVE get_convergence_statistics(_)
get_convergence_statistics(recs) ==
    IF recs = <<>>
    THEN [converged |-> 0, not_converged |-> 0, unknown |-> 0]
    ELSE CountConvergence(get_convergence_statistics(SubSeq(recs, 1, Len(recs) - 1)),
                          recs[Len(recs)])

\* SummaryReportGenerator.calculate_convergence_statistics
RECURSIVE calculate_convergence_statistics(_)
calculate_convergence_statistics(simulation_records) ==
    IF simulation_records = <<>>
    THEN [converged |-> 0, not_converged |-> 0, unknown |-> 0]
    ELSE LET stats == calculate_convergence_statistics(
                          SubSeq(simulation_records, 1, Len(simulation_records) - 1))
             record == simulation_records[Len(simulation_records)]
         IN IF record["has_results"]
            THEN IF record["converged"] = Some(TRUE)
                 THEN [stats EXCEPT !.converged = @ + 1]
                 ELSE IF record["converged"] = Some(FALSE)
                      THEN [stats EXCEPT !.not_converged = @ + 1]
                      ELSE [stats EXCEPT !.unknown = @ + 1]
            ELSE stats

\* A grouping that starts the group of a car anew with every record.
AddToNewGroup(grouped, record) ==
    LET car_name == record["baseline_id"]
    IN IF car_name \notin DOMAIN grouped
       THEN grouped @@ (car_name :> <<record>>)
       ELSE [grouped EXCEPT ![car_name] = <<record>>]

\* The body of the loop of group_by_car
AddToGroup(grouped, record) ==
    LET car_name == record["baseline_id"]
    IN IF car_name \notin DOMAIN grouped
       THEN grouped @@ (car_name :> <<record>>)
       ELSE [grouped EXCEPT ![car_name] = Append(@, record)]

\* SimulationRecordSet.group_by_car
RECURSIVE group_by_car(_)
group_by_car(recs) ==
    IF recs = <<>> THEN EmptyMapping
    ELSE AddToGroup(group_by_car(SubSeq(recs, 1, Len(recs) - 1)), recs[Len(recs)])

\* SimulationRecordSet.get_car_statistics
RECURSIVE get_car_statistics(_)
get_car_statistics(recs) ==
    IF recs = <<>> THEN EmptyMapping
    ELSE LET before == get_car_statistics(SubSeq(recs, 1, Len(recs) - 1))
             record == recs[Len(recs)]
             car_name == record["baseline_id"]
             car_stats ==
                 IF car_name \notin DOMAIN before
                 THEN before @@ (car_name :> [total |-> 0, with_results |-> 0,
                                              without_results |-> 0])
                 ELSE before
         IN [car_stats EXCEPT ![car_name] =
                IF record["has_results"]
                THEN [@ EXCEPT !.total = @ + 1, !.with_results = @ + 1]
                ELSE [@ EXCEPT !.total = @ + 1, !.without_results = @ + 1]]

TallyInit ==
    /\ FindIdle
    /\ MatchIdle
    /\ ExecIdle
    /\ status = NotCalled
    /\ listing = NotListing
    /\ workers = NoWorkers
    /\ ret = NotReturned
    /\ args \in {[records |-> c] : c \in TalliedCollections}

TallyFixed == UNCHANGED <<args, listing, workers, findVars, matchVars, status, execVars>>

\* SimulationRecordSet(records).get_convergence_statistics()
GetConvergenceStatistics ==
    /\ ret' = [fn |-> "get_convergence_statistics", raised |-> None,
               value |-> get_convergence_statistics(args.records)]
    /\ TallyFixed

\* generator.calculate_convergence_statistics(records)
CalculateConvergenceStatistics ==
    /\ ret' = [fn |-> "calculate_convergence_statistics", raised |-> None,
               value |-> calculate_convergence_statistics(args.records)]
    /\ TallyFixed

\* SimulationRecordSet(records).group_by_car()
GroupByCar ==
    /\ ret' = [fn |-> "group_by_car", raised |-> None,
               value |-> group_by_car(args.records)]
    /\ TallyFixed

\* SimulationRecordSet(records).get_car_statistics()
GetCarStatistics ==
    /\ ret' = [fn |-> "get_car_statistics", raised |-> None,
               value |-> get_car_statistics(args.records)]
    /\ TallyFixed

TallyNext ==
    \/ GetConvergenceStatistics
    \/ CalculateConvergenceStatistics
    \/ GroupByCar
    \/ GetCarStatistics

SpecTally == TallyInit /\ [][TallyNext]_vars

\* The positions of the collection whose record has results and the given
\* convergence flag.
WithFlag(flags) ==
    {i \in DOMAIN args.records :
        args.records[i]["has_results"] /\ args.records[i]["converged"] \in flags}

\* C29: the convergence tally partitions the records with results: converged
\* counts those with converged True, not_converged those with False, unknown
\* the others, the three sum to the number of records with has_results True
\* and a record without results is in none of them; get_convergence_statistics
\* and calculate_convergence_statistics return the same tally.
C29_TallyPartitions ==
    ret.fn \in {"get_convergence_statistics", "calculate_convergence_statistics"} =>
        /\ ret.value.converged = Cardinality(WithFlag({Some(TRUE)}))
        /\ ret.value.not_converged = Cardinality(WithFlag({Some(FALSE)}))
        /\ ret.value.unknown = Cardinality(WithFlag({None}))
        /\ ret.value.converged + ret.value.not_converged + ret.value.unknown
               = Cardinality(WithFlag({None, Some(TRUE), Some(FALSE)}))
        /\ ret.value = get_convergence_statistics(args.records)
        /\ ret.value = calculate_convergence_statistics(args.records)

\* A converged record, one with results and no flag, and one without results
\* that carries a flag, tallied by the report generator.
C29_Witness ==
    /\ ret.fn = "calculate_convergence_statistics"
    /\ Len(args.records) = 3
    /\ args.records[1]["has_results"] /\ args.records[1]["converged"] = Some(TRUE)
    /\ args.records[2]["has_results"] /\ args.records[2]["converged"] = None
    /\ ~args.records[3]["has_results"] /\ args.records[3]["converged"] = Some(TRUE)
    /\ ret.value = [converged |-> 1, not_converged |-> 0, unknown |-> 1]

\* The records of the collection with the given baseline_id, in order.
OfBaseline(k) ==
    LET Same(r) == r["baseline_id"] = k
    IN SelectSeq(args.records, Same)

RECURSIVE SizesOf(_, _)
SizesOf(grouped, keys) ==
    IF keys = {} THEN 0
    ELSE LET k == CHOOSE x \in keys : TRUE
         IN Len(grouped[k]) + SizesOf(grouped, keys \ {k})

\* C30: group_by_car partitions the collection by baseline_id: the keys are the
\* baseline_ids of the records, the group of a key holds the records with that
\* baseline_id in their order of the collection, every record is in exactly
\* one group, and the group sizes sum to the number of records; for each key
\* get_car_statistics reports total = with_results + without_results = the
\* size of that group.
C30_GroupsPartition ==
    /\ ret.fn = "group_by_car" =>
          /\ DOMAIN ret.value = {args.records[i]["baseline_id"] : i \in DOMAIN args.records}
          /\ \A k \in DOMAIN ret.value : ret.value[k] = OfBaseline(k)
          /\ \A i \in DOMAIN args.records :
                Cardinality({k \in DOMAIN ret.value :
                                \E j \in DOMAIN ret.value[k] :
                                    ret.value[k][j] = args.records[i]}) = 1
          /\ SizesOf(ret.value, DOMAIN ret.value) = Len(args.records)
    /\ ret.fn = "get_car_statistics" =>
          /\ DOMAIN ret.value = DOMAIN group_by_car(args.records)
          /\ \A k \in DOMAIN ret.value :
                /\ ret.value[k].total = ret.value[k].with_results + ret.value[k].without_results
                /\ ret.value[k].total = Len(group_by_car(args.records)[k])
                /\ ret.value[k].with_results
                       = Cardinality({i \in DOMAIN args.records :
                                         /\ args.records[i]["baseline_id"] = k
                                         /\ args.records[i]["has_results"]})

\* Three records of two cars, the first and the last of the same car: its
\* group holds them in that order.
C30_Witness ==
    /\ ret.fn = "group_by_car"
    /\ Len(args.records) = 3
    /\ args.records[1]["baseline_id"] = Some(<<"c">>)
    /\ args.records[2]["baseline_id"] = Some(<<"d">>)
    /\ args.records[3]["baseline_id"] = Some(<<"c">>)
    /\ ret.value[Some(<<"c">>)] = <<args.records[1], args.records[3]>>
    /\ ret.value[Some(<<"d">>)] = <<args.records[2]>>

====
